---- MODULE Spec2Model ----
(***************************************************************************)
(* Model of the validation and analysis engine of the Antarctic Mystery    *)
(* Validator (src/mystery_validator).  The validators are pure functions   *)
(* of the loaded records; each is an operator computed the way the Python  *)
(* computes it, and each specification draws a dataset in its initial      *)
(* state and applies the functions it is about.                            *)
(***************************************************************************)
EXTENDS Integers, Sequences, FiniteSets

VARIABLES
    characters,      \* Dict[str, Character] in insertion order: a sequence of Character records
    scene_evidence,  \* List[SceneEvidence]
    all_clue_counts, \* total_clues of every analysed character, in dict order
    thresholds,      \* result of _calculate_difficulty_thresholds
    difficulty,      \* analysis[name]['difficulty'], in dict order
    pc,              \* the call that is made next, then "done" (or the exception raised)
    result,          \* the (passed, details) pair returned by the validator called
    dialogue,          \* List[Dialogue]
    difficulty_groups, \* Dict[str, List[str]]: the names of each difficulty label
    scene_complexity,  \* result of analyze_scene_complexity, in dict order
    clue_analysis,     \* result of analyze_clues_per_character, in dict order
    returned,          \* what each function called so far returned, by function name
    files              \* the CSV files of data/exported that main loads

vars == <<characters, scene_evidence, all_clue_counts, thresholds, difficulty, pc, result,
          dialogue, difficulty_groups, scene_complexity, clue_analysis, returned,
          files>>

(***************************************************************************)
(* Bounds of the datasets explored.                                        *)
(***************************************************************************)
MaxScene == 2
MaxEvidence == 2
MaxCharacters == 6
MaxClues == 3
MaxGroup == 5
MaxCast == 11
MaxDialogue == 3
MaxTypeClues == 9

(***************************************************************************)
(* Data model (models.py).  Optional[T] is <<>> for None and <<v>> for a   *)
(* value.  The fields no function reads (a character's role, nationality   *)
(* and build, a dialogue line's text and display time) are left out, and   *)
(* the evidence records carry their clue fields only in the                *)
(* specifications that call a function reading them.                       *)
(***************************************************************************)
None == <<>>
Some(v) == <<v>>

Character(n, cause, k, ds) ==
    [name |-> n, cause_of_death |-> cause, killer |-> k, death_scene |-> ds]

SceneEvidence(n, s, d) ==
    [character_name |-> n, scene_number |-> s, dies_in_this_scene |-> d]

\* a record with all its fields and without any clue: the flags are False and
\* the optional texts None
FullSceneEvidence(n, s, d) ==
    [character_name |-> n, scene_number |-> s, dies_in_this_scene |-> d,
     uniform_visible |-> FALSE,
     holding_something_distinctive |-> FALSE,
     held_item_description |-> None,
     distinctive_features_visible |-> FALSE,
     distinctive_features_description |-> None,
     body_position_relevant |-> FALSE,
     body_position_description |-> None,
     accent_audible |-> FALSE,
     name_mentioned_in_dialogue |-> FALSE,
     relationship_mentioned |-> FALSE,
     relationship_description |-> None,
     role_mentioned |-> FALSE,
     role_behaviour_visible |-> FALSE,
     spatial_relationship_visible |-> FALSE,
     spatial_relationship_description |-> None,
     environmental_context_relevant |-> FALSE,
     environmental_context_description |-> None,
     additional_visual_clues |-> None,
     additional_dialogue_clues |-> None,
     additional_contextual_clues |-> None]

\* the bool fields and the Optional[str] fields of a record other than its keys
Flags == {"uniform_visible", "holding_something_distinctive",
          "distinctive_features_visible", "body_position_relevant",
          "accent_audible", "name_mentioned_in_dialogue", "relationship_mentioned",
          "role_mentioned", "role_behaviour_visible", "spatial_relationship_visible",
          "environmental_context_relevant"}

Texts == {"held_item_description", "distinctive_features_description",
          "body_position_description", "relationship_description",
          "spatial_relationship_description", "environmental_context_description",
          "additional_visual_clues", "additional_dialogue_clues",
          "additional_contextual_clues"}

\* the record with the given flags True and the given texts filled in
Filled(ev, fields) ==
    [f \in DOMAIN ev |->
        IF f \in fields \cap Flags THEN TRUE
        ELSE IF f \in fields \cap Texts THEN Some("seen")
        ELSE ev[f]]

Dialogue(s, l, sp) == [scene_number |-> s, line_number |-> l, speaker |-> sp]

\* dead as soon as a death scene is recorded, whatever its number
is_dead_when_recorded(c) == c.death_scene # None

is_dead(c) == c.death_scene # None /\ c.death_scene[1] > 0

\* characters.keys(), and `name in characters`
Keys(chars) == {chars[i].name : i \in DOMAIN chars}

\* the names of a larger cast, for the datasets that need many characters
Cast == <<"C01", "C02", "C03", "C04", "C05", "C06", "C07", "C08", "C09", "C10",
          "C11", "C12", "C13", "C14", "C15", "C16", "C17", "C18", "C19", "C20",
          "C21", "C22", "C23", "C24", "C25", "C26", "C27", "C28", "C29", "C30">>

\* Python's order of the strings used as names (code point order), for sorted()
NameOrder == <<"Accident", "Alice", "Bob", "Self-inflicted">>

\* the same order with the blank strings and the cast in their places
StringOrder ==
    <<"", " ", "  ">> \o SubSeq(NameOrder, 1, 3) \o Cast \o SubSeq(NameOrder, 4, 4)

RECURSIVE SortedFrom(_, _)
SortedFrom(S, i) ==
    IF S = {} \/ i > Len(StringOrder) THEN <<>>
    ELSE IF StringOrder[i] \in S
         THEN <<StringOrder[i]>> \o SortedFrom(S \ {StringOrder[i]}, i + 1)
         ELSE SortedFrom(S, i + 1)

\* sorted(S) for a set of names
sorted_names(S) == SortedFrom(S, 1)

RECURSIVE Flatten(_)
Flatten(ss) == IF ss = <<>> THEN <<>> ELSE Head(ss) \o Flatten(Tail(ss))

Range(s) == {s[i] : i \in DOMAIN s}

(***************************************************************************)
(* Basic validators (validators.py).  A result is the returned pair        *)
(* (passed, details); details is the sequence of lines of the message,     *)
(* each line a record holding the values the f-string formats.             *)
(***************************************************************************)
Result(p, d) == [passed |-> p, details |-> d]

check_everyone_appears_symmetric(chars, evidence) ==
    LET appeared_characters == {evidence[i].character_name : i \in DOMAIN evidence}
        missing_characters == (Keys(chars) \ appeared_characters)
                              \cup (appeared_characters \ Keys(chars))
    IN  IF missing_characters # {}
        THEN Result(FALSE, <<[kind |-> "do not appear",
                              names |-> sorted_names(missing_characters)]>>)
        ELSE Result(TRUE, <<[kind |-> "all appear", count |-> Len(chars)]>>)

check_everyone_appears(chars, evidence) ==
    LET appeared_characters == {evidence[i].character_name : i \in DOMAIN evidence}
        missing_characters == Keys(chars) \ appeared_characters
    IN  IF missing_characters # {}
        THEN Result(FALSE, <<[kind |-> "do not appear",
                              names |-> sorted_names(missing_characters)]>>)
        ELSE Result(TRUE, <<[kind |-> "all appear", count |-> Len(chars)]>>)

\* the lines check_every_death_has_a_scene appends for one character
death_scene_issues(character, evidence) ==
    LET scene_numbers == {evidence[i].scene_number : i \in DOMAIN evidence}
        death_evidence ==
            SelectSeq(evidence, LAMBDA ev : ev.character_name = character.name
                                            /\ ev.dies_in_this_scene)
        no_scene ==
            IF character.death_scene[1] \notin scene_numbers
            THEN <<[kind |-> "no evidence exists for that scene",
                    name |-> character.name,
                    death_scene |-> character.death_scene[1]]>>
            ELSE <<>>
        no_death ==
            IF death_evidence = <<>>
            THEN <<[kind |-> "no scene evidence shows them dying",
                    name |-> character.name]>>
            ELSE IF death_evidence[1].scene_number # character.death_scene[1]
            THEN <<[kind |-> "death scene mismatch",
                    name |-> character.name,
                    death_scene |-> character.death_scene[1],
                    scene |-> death_evidence[1].scene_number]>>
            ELSE <<>>
    IN  IF is_dead(character) THEN no_scene \o no_death ELSE <<>>

dead_count(chars) == Cardinality({i \in DOMAIN chars : is_dead(chars[i])})

check_every_death_has_a_scene(chars, evidence) ==
    LET issues == Flatten([i \in DOMAIN chars |-> death_scene_issues(chars[i], evidence)])
    IN  IF issues = <<>>
        THEN Result(TRUE, <<[kind |-> "all valid", count |-> dead_count(chars)]>>)
        ELSE Result(FALSE, issues)

(***************************************************************************)
(* Timeline validator (validators/timeline.py).                            *)
(***************************************************************************)
is_ghost_from_death_scene(ev, death_scene) ==
    ev.scene_number >= death_scene /\ ~ev.dies_in_this_scene

\* the test of an appearance after death
is_ghost(ev, death_scene) ==
    ev.scene_number > death_scene /\ ~ev.dies_in_this_scene

\* the GHOST lines appended for one dead character
ghost_issues(character, evidence) ==
    LET death_scene == character.death_scene[1]
        char_appearances ==
            SelectSeq(evidence, LAMBDA ev : ev.character_name = character.name)
        ghosts == SelectSeq(char_appearances, LAMBDA ev : is_ghost(ev, death_scene))
    IN  [i \in 1..Len(ghosts) |->
            [kind |-> "GHOST", name |-> character.name,
             scene |-> ghosts[i].scene_number, death_scene |-> death_scene]]

killer_issues_unknown_reported(character, chars, evidence) ==
    LET death_scene == character.death_scene[1]
        killer_at_death_scene ==
            \E i \in DOMAIN evidence :
                /\ evidence[i].character_name = character.killer[1]
                /\ evidence[i].scene_number = death_scene
    IN  IF character.killer # None /\ character.killer[1] # ""
           /\ character.killer[1] # "Accident"
           /\ ~killer_at_death_scene
        THEN <<[kind |-> "TIMELINE ERROR", killer |-> character.killer[1],
                name |-> character.name, death_scene |-> death_scene]>>
        ELSE <<>>

\* the TIMELINE ERROR line appended for one dead character
killer_issues(character, chars, evidence) ==
    LET death_scene == character.death_scene[1]
        killer_at_death_scene ==
            \E i \in DOMAIN evidence :
                /\ evidence[i].character_name = character.killer[1]
                /\ evidence[i].scene_number = death_scene
    IN  IF character.killer # None /\ character.killer[1] # ""
           /\ character.killer[1] # "Accident"
        THEN IF ~killer_at_death_scene /\ character.killer[1] \in Keys(chars)
             THEN <<[kind |-> "TIMELINE ERROR", killer |-> character.killer[1],
                     name |-> character.name, death_scene |-> death_scene]>>
             ELSE <<>>
        ELSE <<>>

\* the body of the loop over characters.values()
timeline_issues(character, chars, evidence) ==
    IF ~is_dead(character) THEN <<>>
    ELSE ghost_issues(character, evidence) \o killer_issues(character, chars, evidence)

check_timeline_consistency_first_only(chars, evidence) ==
    LET issues ==
            Flatten([i \in DOMAIN chars |-> timeline_issues(chars[i], chars, evidence)])
    IN  IF issues # <<>>
        THEN Result(FALSE, <<Head(issues)>>)
        ELSE Result(TRUE, <<[kind |-> "consistent", count |-> dead_count(chars)]>>)

check_timeline_consistency(chars, evidence) ==
    LET issues ==
            Flatten([i \in DOMAIN chars |-> timeline_issues(chars[i], chars, evidence)])
    IN  IF issues # <<>>
        THEN Result(FALSE, issues)
        ELSE Result(TRUE, <<[kind |-> "consistent", count |-> dead_count(chars)]>>)

(***************************************************************************)
(* Difficulty classification (validators/character_analysis.py).           *)
(***************************************************************************)
Min(a, b) == IF a <= b THEN a ELSE b

\* list.insert of x before the first element greater than x
RECURSIVE Insert(_, _)
Insert(x, l) ==
    IF l = <<>> THEN <<x>>
    ELSE IF x <= Head(l) THEN <<x>> \o l
    ELSE <<Head(l)>> \o Insert(x, Tail(l))

\* the list sorted in descending order
RECURSIVE sorted_descending(_)
sorted_descending(l) ==
    IF l = <<>> THEN <<>>
    ELSE LET rest == sorted_descending(Tail(l))
         IN  SelectSeq(rest, LAMBDA x : x > Head(l)) \o <<Head(l)>>
             \o SelectSeq(rest, LAMBDA x : x <= Head(l))

\* sorted(l) for a list of integers: ascending
RECURSIVE sorted(_)
sorted(l) == IF l = <<>> THEN <<>> ELSE Insert(Head(l), sorted(Tail(l)))

\* l[i] of a Python list: 0-based, negative i counts from the end, None stands
\* for the IndexError raised outside the list
Index(l, i) ==
    IF 0 <= i /\ i < Len(l) THEN Some(l[i + 1])
    ELSE IF i < 0 /\ -i <= Len(l) THEN Some(l[Len(l) + i + 1])
    ELSE None

boundary_index_end_of_quintile(k, quintile_size, n) ==
    Min(quintile_size * k - 1, n - 1)

\* idx_20, idx_40, idx_60, idx_80 for k = 1, 2, 3, 4
boundary_index(k, quintile_size, n) == Min(quintile_size * k, n - 1)

IndexError == [exception |-> "IndexError"]

_calculate_difficulty_thresholds(counts) ==
    LET sorted_counts == sorted(counts)
        n == Len(sorted_counts)
        quintile_size == n \div 5
        at == [k \in 1..4 |-> Index(sorted_counts, boundary_index(k, quintile_size, n))]
    IN  IF \E k \in 1..4 : at[k] = None
        THEN IndexError
        ELSE [hard_min |-> at[1][1], medium_min |-> at[2][1],
              easy_min |-> at[3][1], very_easy_min |-> at[4][1]]

_calculate_difficulty_strict(clue_count, t) ==
    IF clue_count > t.very_easy_min THEN "VERY EASY"
    ELSE IF clue_count > t.easy_min THEN "EASY"
    ELSE IF clue_count > t.medium_min THEN "MEDIUM"
    ELSE IF clue_count > t.hard_min THEN "HARD"
    ELSE "VERY HARD"

_calculate_difficulty_labels_swapped(clue_count, t) ==
    IF clue_count >= t.very_easy_min THEN "EASY"
    ELSE IF clue_count >= t.easy_min THEN "VERY EASY"
    ELSE IF clue_count >= t.medium_min THEN "MEDIUM"
    ELSE IF clue_count >= t.hard_min THEN "HARD"
    ELSE "VERY HARD"

\* the top bucket starts above its threshold
_calculate_difficulty_top_strict(clue_count, t) ==
    IF clue_count > t.very_easy_min THEN "VERY EASY"
    ELSE IF clue_count >= t.easy_min THEN "EASY"
    ELSE IF clue_count >= t.medium_min THEN "MEDIUM"
    ELSE IF clue_count >= t.hard_min THEN "HARD"
    ELSE "VERY HARD"

\* a count on the 20% boundary goes to the bottom bucket
_calculate_difficulty_bottom_tied(clue_count, t) ==
    IF clue_count >= t.very_easy_min THEN "VERY EASY"
    ELSE IF clue_count >= t.easy_min THEN "EASY"
    ELSE IF clue_count >= t.medium_min THEN "MEDIUM"
    ELSE IF clue_count > t.hard_min THEN "HARD"
    ELSE "VERY HARD"

_calculate_difficulty(clue_count, t) ==
    IF clue_count >= t.very_easy_min THEN "VERY EASY"
    ELSE IF clue_count >= t.easy_min THEN "EASY"
    ELSE IF clue_count >= t.medium_min THEN "MEDIUM"
    ELSE IF clue_count >= t.hard_min THEN "HARD"
    ELSE "VERY HARD"

(***************************************************************************)
(* Game balance (validators/game_balance.py).  The comparisons with a      *)
(* fraction of a total (total * 0.15, total * 0.2, ...) are made on        *)
(* integers: the float product compares with a count exactly as the        *)
(* rational does for every total below 400.                                *)
(***************************************************************************)
ZeroDivisionError == [exception |-> "ZeroDivisionError"]

\* f"{a/b*100:.0f}": the quotient rounded to an integer, halves to the even
\* one; a/b raises ZeroDivisionError when b is 0
percent_0f(a, b) ==
    IF b = 0 THEN ZeroDivisionError
    ELSE LET q == (100 * a) \div b
             r == (100 * a) % b
         IN  [value |-> IF 2 * r > b \/ (2 * r = b /\ q % 2 = 1) THEN q + 1 ELSE q]

\* an exception raised while a line was formatted leaves the function
raises(lines) ==
    \E i \in DOMAIN lines :
        "percent" \in DOMAIN lines[i] /\ lines[i].percent = ZeroDivisionError

\* the keys of difficulty_groups, in dict order
DifficultyLabels == <<"VERY EASY", "EASY", "MEDIUM", "HARD", "VERY HARD">>

RECURSIVE SumLen(_, _)
SumLen(groups, i) ==
    IF i > Len(DifficultyLabels) THEN 0
    ELSE Len(groups[DifficultyLabels[i]]) + SumLen(groups, i + 1)

few_medium_or_exactly_a_fifth(medium_count, total) == 5 * medium_count <= total

\* medium_count < total * 0.2
few_medium(medium_count, total) == 5 * medium_count < total

check_difficulty_balance_warnings_fail(groups) ==
    LET total == SumLen(groups, 1)
        very_easy_count == Len(groups["VERY EASY"])
        easy_count == Len(groups["EASY"])
        medium_count == Len(groups["MEDIUM"])
        hard_count == Len(groups["HARD"])
        very_hard_count == Len(groups["VERY HARD"])
        entry_points == very_easy_count + easy_count
        issues ==
            (IF entry_points = 0 THEN <<[kind |-> "no entry points"]>> ELSE <<>>)
            \o (IF 20 * very_hard_count > 3 * total
                THEN <<[kind |-> "too many very hard", count |-> very_hard_count,
                        percent |-> percent_0f(very_hard_count, total)]>>
                ELSE <<>>)
        warnings ==
            (IF entry_points < 5
             THEN <<[kind |-> "few entry points", count |-> entry_points]>> ELSE <<>>)
            \o (IF few_medium(medium_count, total)
                THEN <<[kind |-> "few medium", count |-> medium_count,
                        percent |-> percent_0f(medium_count, total)]>>
                ELSE <<>>)
        report_lines ==
            <<[kind |-> "distribution", very_easy |-> very_easy_count,
               easy |-> easy_count, medium |-> medium_count, hard |-> hard_count,
               very_hard |-> very_hard_count]>> \o issues \o warnings
    IN  IF raises(report_lines) THEN ZeroDivisionError
        ELSE Result(issues = <<>> /\ warnings = <<>>, report_lines)

check_difficulty_balance(groups) ==
    LET total == SumLen(groups, 1)
        very_easy_count == Len(groups["VERY EASY"])
        easy_count == Len(groups["EASY"])
        medium_count == Len(groups["MEDIUM"])
        hard_count == Len(groups["HARD"])
        very_hard_count == Len(groups["VERY HARD"])
        entry_points == very_easy_count + easy_count
        issues ==
            (IF entry_points = 0 THEN <<[kind |-> "no entry points"]>> ELSE <<>>)
            \o (IF 20 * very_hard_count > 3 * total
                THEN <<[kind |-> "too many very hard", count |-> very_hard_count,
                        percent |-> percent_0f(very_hard_count, total)]>>
                ELSE <<>>)
        warnings ==
            (IF entry_points < 5
             THEN <<[kind |-> "few entry points", count |-> entry_points]>> ELSE <<>>)
            \o (IF few_medium(medium_count, total)
                THEN <<[kind |-> "few medium", count |-> medium_count,
                        percent |-> percent_0f(medium_count, total)]>>
                ELSE <<>>)
        report_lines ==
            <<[kind |-> "distribution", very_easy |-> very_easy_count,
               easy |-> easy_count, medium |-> medium_count, hard |-> hard_count,
               very_hard |-> very_hard_count]>> \o issues \o warnings
    IN  IF raises(report_lines) THEN ZeroDivisionError
        ELSE Result(issues = <<>>, report_lines)

\* the keys of the dict `scenes`, in insertion order: the scene numbers of the
\* records in the order of their first record
RECURSIVE FirstSeen(_, _)
FirstSeen(evidence, seen) ==
    IF evidence = <<>> THEN <<>>
    ELSE LET scene_num == Head(evidence).scene_number
         IN  IF scene_num \in seen THEN FirstSeen(Tail(evidence), seen)
             ELSE <<scene_num>> \o FirstSeen(Tail(evidence), seen \cup {scene_num})

\* scenes[scene_num]: the set of names of the scene's records
scene_characters(evidence, scene_num) ==
    {evidence[i].character_name :
        i \in {j \in DOMAIN evidence : evidence[j].scene_number = scene_num}}

complexity_rating_strict(char_count) ==
    IF char_count < 2 THEN "SIMPLE"
    ELSE IF char_count < 6 THEN "BALANCED"
    ELSE IF char_count < 10 THEN "COMPLEX"
    ELSE "OVERWHELMING"

complexity_rating(char_count) ==
    IF char_count <= 2 THEN "SIMPLE"
    ELSE IF char_count <= 6 THEN "BALANCED"
    ELSE IF char_count <= 10 THEN "COMPLEX"
    ELSE "OVERWHELMING"

\* the dict scene number -> info as the sequence of its items
analyze_scene_complexity(evidence) ==
    LET scenes == FirstSeen(evidence, {})
    IN  [i \in DOMAIN scenes |->
            LET chars == scene_characters(evidence, scenes[i])
                char_count == Cardinality(chars)
            IN  [scene_number |-> scenes[i],
                 character_count |-> char_count,
                 characters |-> sorted_names(chars),
                 complexity_rating |-> complexity_rating(char_count)]]

is_simple_scene(info) == info.character_count = 1

is_overwhelming_scene_from_ten(info) ==
    ~is_simple_scene(info) /\ info.character_count >= 10

is_overwhelming_scene(info) ==
    ~is_simple_scene(info) /\ info.character_count > 10

\* complexity_counts[rating]
complexity_count(complexity, rating) ==
    Cardinality({i \in DOMAIN complexity : complexity[i].complexity_rating = rating})

\* [(scene_num, count) for ...]
scenes_and_counts(infos) ==
    [i \in DOMAIN infos |-> <<infos[i].scene_number, infos[i].character_count>>]

check_scene_complexity(complexity) ==
    LET simple_scenes == SelectSeq(complexity, is_simple_scene)
        overwhelming_scenes ==
            scenes_and_counts(SelectSeq(complexity, is_overwhelming_scene))
        issues ==
            IF overwhelming_scenes # <<>>
            THEN <<[kind |-> "overwhelming", scenes |-> overwhelming_scenes]>>
            ELSE <<>>
        warnings ==
            IF 10 * Len(simple_scenes) > 3 * Len(complexity)
            THEN <<[kind |-> "single character", count |-> Len(simple_scenes),
                    percent |-> percent_0f(Len(simple_scenes), Len(complexity))]>>
            ELSE <<>>
        report_lines ==
            <<[kind |-> "summary",
               SIMPLE |-> complexity_count(complexity, "SIMPLE"),
               BALANCED |-> complexity_count(complexity, "BALANCED"),
               COMPLEX |-> complexity_count(complexity, "COMPLEX"),
               OVERWHELMING |-> complexity_count(complexity, "OVERWHELMING")]>>
            \o issues \o warnings
    IN  IF raises(report_lines) THEN ZeroDivisionError
        ELSE Result(issues = <<>>, report_lines)

\* str.strip() on the strings the datasets use for free text
strip(s) == IF s \in {"", " ", "  "} THEN "" ELSE s

\* `not value or not value.strip()` for an Optional[str]
is_blank_without_strip(value) == value = None \/ value[1] = ""

is_blank(value) == value = None \/ value[1] = "" \/ strip(value[1]) = ""

\* [character.name for ...]
names_of(chars) == [i \in DOMAIN chars |-> chars[i].name]

check_death_attribution_completeness(chars) ==
    LET dead == SelectSeq(chars, is_dead)
        missing_cause ==
            names_of(SelectSeq(dead, LAMBDA c : is_blank(c.cause_of_death)))
        missing_killer ==
            names_of(SelectSeq(dead, LAMBDA c : is_blank(c.killer)))
        missing_scene ==
            names_of(SelectSeq(dead, LAMBDA c : c.death_scene = None))
        issues ==
            (IF missing_cause # <<>>
             THEN <<[kind |-> "missing cause", names |-> missing_cause]>> ELSE <<>>)
            \o (IF missing_killer # <<>>
                THEN <<[kind |-> "missing killer", names |-> missing_killer]>> ELSE <<>>)
            \o (IF missing_scene # <<>>
                THEN <<[kind |-> "missing scene", names |-> missing_scene]>> ELSE <<>>)
    IN  IF issues # <<>> THEN Result(FALSE, issues)
        ELSE Result(TRUE, <<[kind |-> "all complete", dead_count |-> Len(dead)]>>)

(***************************************************************************)
(* Dialogue validator (validators.py).                                     *)
(***************************************************************************)
invalid_speakers_empty_included(chars, dlg) ==
    {dlg[i].speaker : i \in {j \in DOMAIN dlg : dlg[j].speaker \notin Keys(chars)}}

\* the speakers of the lines that reach `elif line.speaker not in characters`
invalid_speakers(chars, dlg) ==
    {dlg[i].speaker :
        i \in {j \in DOMAIN dlg : /\ strip(dlg[j].speaker) # ""
                                  /\ dlg[j].speaker \notin Keys(chars)}}

check_dialogue_speakers_exist(chars, dlg) ==
    LET empty_speaker_count ==
            Cardinality({i \in DOMAIN dlg : strip(dlg[i].speaker) = ""})
        invalid == invalid_speakers(chars, dlg)
        issues ==
            (IF empty_speaker_count > 0
             THEN <<[kind |-> "empty speakers", count |-> empty_speaker_count]>>
             ELSE <<>>)
            \o (IF invalid # {}
                THEN <<[kind |-> "unknown speakers", names |-> sorted_names(invalid)]>>
                ELSE <<>>)
        unique_speakers ==
            Cardinality({dlg[i].speaker :
                            i \in {j \in DOMAIN dlg : strip(dlg[j].speaker) # ""}})
    IN  IF issues # <<>> THEN Result(FALSE, issues)
        ELSE Result(TRUE, <<[kind |-> "all valid", unique_speakers |-> unique_speakers]>>)

(***************************************************************************)
(* Clue validator (validators.py) and the first pass of                    *)
(* analyze_clues_per_character (validators/character_analysis.py).         *)
(***************************************************************************)
\* truth value of an Optional[str]: None and "" are false
truthy(text) == text # None /\ text[1] # ""

char_evidence(evidence, character_name) ==
    SelectSeq(evidence, LAMBDA ev : ev.character_name = character_name)

has_clue_but_role_behaviour(ev) ==
    \/ ev.uniform_visible
    \/ ev.holding_something_distinctive
    \/ ev.distinctive_features_visible
    \/ ev.body_position_relevant
    \/ ev.accent_audible
    \/ ev.name_mentioned_in_dialogue
    \/ ev.relationship_mentioned
    \/ ev.role_mentioned
    \/ ev.spatial_relationship_visible
    \/ ev.environmental_context_relevant
    \/ truthy(ev.additional_visual_clues)
    \/ truthy(ev.additional_dialogue_clues)
    \/ truthy(ev.additional_contextual_clues)

\* the operand of any() in check_every_character_has_identifying_clues
has_clue(ev) ==
    \/ ev.uniform_visible
    \/ ev.holding_something_distinctive
    \/ ev.distinctive_features_visible
    \/ ev.body_position_relevant
    \/ ev.accent_audible
    \/ ev.name_mentioned_in_dialogue
    \/ ev.relationship_mentioned
    \/ ev.role_mentioned
    \/ ev.role_behaviour_visible
    \/ ev.spatial_relationship_visible
    \/ ev.environmental_context_relevant
    \/ truthy(ev.additional_visual_clues)
    \/ truthy(ev.additional_dialogue_clues)
    \/ truthy(ev.additional_contextual_clues)

check_every_character_has_identifying_clues(chars, evidence) ==
    LET without_clues(c) ==
            \A i \in DOMAIN evidence :
                evidence[i].character_name = c.name => ~has_clue(evidence[i])
        characters_without_clues == names_of(SelectSeq(chars, without_clues))
    IN  IF characters_without_clues # <<>>
        THEN Result(FALSE, <<[kind |-> "no clues",
                              names |-> sorted_names(Range(characters_without_clues))]>>)
        ELSE Result(TRUE, <<[kind |-> "all have clues", count |-> Len(chars)]>>)

\* `if flag: clues += 1`
one_if(flag) == IF flag THEN 1 ELSE 0

visual_clues(ev) ==
    one_if(ev.uniform_visible) + one_if(ev.holding_something_distinctive)
    + one_if(ev.distinctive_features_visible) + one_if(ev.body_position_relevant)
    + one_if(truthy(ev.additional_visual_clues))

dialogue_clues(ev) ==
    one_if(ev.accent_audible) + one_if(ev.name_mentioned_in_dialogue)
    + one_if(truthy(ev.additional_dialogue_clues))

contextual_clues(ev) ==
    one_if(ev.environmental_context_relevant) + one_if(ev.spatial_relationship_visible)
    + one_if(truthy(ev.additional_contextual_clues))

relationship_clues(ev) == one_if(ev.relationship_mentioned)

\* only the mention of the role counts
role_clues_mentioned_only(ev) == one_if(ev.role_mentioned)

role_clues(ev) == one_if(ev.role_mentioned) + one_if(ev.role_behaviour_visible)

\* has_clue_in_scene at the end of the loop body: some counter was incremented
has_clue_in_scene(ev) ==
    visual_clues(ev) + dialogue_clues(ev) + contextual_clues(ev)
    + relationship_clues(ev) + role_clues(ev) > 0

RECURSIVE Sum(_)
Sum(s) == IF s = <<>> THEN 0 ELSE Head(s) + Sum(Tail(s))

\* analysis[character_name] after the first pass, with the key
count_clues(character_name, evidence) ==
    LET evs == char_evidence(evidence, character_name)
        visual == Sum([i \in DOMAIN evs |-> visual_clues(evs[i])])
        dialogue_ == Sum([i \in DOMAIN evs |-> dialogue_clues(evs[i])])
        contextual == Sum([i \in DOMAIN evs |-> contextual_clues(evs[i])])
        relationship == Sum([i \in DOMAIN evs |-> relationship_clues(evs[i])])
        role == Sum([i \in DOMAIN evs |-> role_clues(evs[i])])
        with_clues == SelectSeq(evs, has_clue_in_scene)
    IN  [name |-> character_name,
         total_clues |-> visual + dialogue_ + contextual + relationship + role,
         clue_types |-> [visual |-> visual, dialogue |-> dialogue_,
                         contextual |-> contextual, relationship |-> relationship,
                         role |-> role],
         scenes_with_clues |->
             Cardinality({with_clues[i].scene_number : i \in DOMAIN with_clues}),
         difficulty |-> None]

\* all_clue_counts after the first pass
first_pass_counts(chars, evidence) ==
    [i \in DOMAIN chars |-> count_clues(chars[i].name, evidence).total_clues]

\* the dict name -> analysis as the sequence of its items, or the exception
\* that _calculate_difficulty_thresholds raised
analyze_clues_per_character(chars, evidence) ==
    LET first_pass == [i \in DOMAIN chars |-> count_clues(chars[i].name, evidence)]
        t == _calculate_difficulty_thresholds(first_pass_counts(chars, evidence))
    IN  IF t = IndexError THEN IndexError
        ELSE [i \in DOMAIN chars |->
                 [first_pass[i] EXCEPT
                     !.difficulty = _calculate_difficulty(first_pass[i].total_clues, t)]]

(***************************************************************************)
(* Clue type diversity (validators/game_balance.py).                       *)
(***************************************************************************)
\* the keys of clue_types, in dict order
ClueTypes == <<"visual", "dialogue", "contextual", "relationship", "role">>

\* max(clue_types.items(), key=lambda x: x[1]): the first item, in dict order,
\* whose count no other item exceeds
RECURSIVE MaxTypeFrom(_, _, _)
MaxTypeFrom(clue_types, i, best) ==
    IF i > Len(ClueTypes) THEN <<best, clue_types[best]>>
    ELSE MaxTypeFrom(clue_types, i + 1,
                     IF clue_types[ClueTypes[i]] > clue_types[best]
                     THEN ClueTypes[i] ELSE best)

max_type(clue_types) == MaxTypeFrom(clue_types, 2, ClueTypes[1])

is_unbalanced(data) ==
    /\ data.total_clues # 0
    /\ 5 * max_type(data.clue_types)[2] > 4 * data.total_clues
    /\ data.total_clues >= 5

\* f"{character_name}: {max_count}/{total} clues are {max_type_name}", per entry
unbalanced_lines(entries) ==
    [i \in DOMAIN entries |->
        [name |-> entries[i].name,
         max_count |-> max_type(entries[i].clue_types)[2],
         total |-> entries[i].total_clues,
         max_type_name |-> max_type(entries[i].clue_types)[1]]]

check_clue_type_diversity_warnings_fail(analysis) ==
    LET unbalanced_characters == unbalanced_lines(SelectSeq(analysis, is_unbalanced))
        warnings ==
            IF unbalanced_characters = <<>> THEN <<>>
            ELSE IF Len(unbalanced_characters) > 10
                 THEN <<[kind |-> "many unbalanced", count |-> Len(unbalanced_characters)]>>
                 ELSE <<[kind |-> "unbalanced list", characters |-> unbalanced_characters]>>
        report_lines ==
            (IF unbalanced_characters = <<>>
             THEN <<[kind |-> "all diverse"]>>
             ELSE <<[kind |-> "unbalanced count", count |-> Len(unbalanced_characters)]>>)
            \o warnings
    IN  Result(warnings = <<>>, report_lines)

check_clue_type_diversity(analysis) ==
    LET issues == <<>>
        unbalanced_characters == unbalanced_lines(SelectSeq(analysis, is_unbalanced))
        warnings ==
            IF unbalanced_characters = <<>> THEN <<>>
            ELSE IF Len(unbalanced_characters) > 10
                 THEN <<[kind |-> "many unbalanced", count |-> Len(unbalanced_characters)]>>
                 ELSE <<[kind |-> "unbalanced list", characters |-> unbalanced_characters]>>
        report_lines ==
            (IF unbalanced_characters = <<>>
             THEN <<[kind |-> "all diverse"]>>
             ELSE <<[kind |-> "unbalanced count", count |-> Len(unbalanced_characters)]>>)
            \o warnings
    IN  Result(issues = <<>>, report_lines)

(***************************************************************************)
(* Scene validator (validators.py).                                        *)
(***************************************************************************)
scene_keys_created_beforehand(evidence) == [s \in 1..MaxScene |-> s]

\* the keys of scenes_by_number, in insertion order
scene_keys(evidence) == FirstSeen(evidence, {})

\* scenes_by_number[scene_num]: the names appended for the scene
scene_names(evidence, scene_num) ==
    LET in_scene == SelectSeq(evidence, LAMBDA ev : ev.scene_number = scene_num)
    IN  [i \in DOMAIN in_scene |-> in_scene[i].character_name]

check_scenes_have_characters(evidence) ==
    LET scenes_by_number == scene_keys(evidence)
        empty_scenes ==
            SelectSeq(scenes_by_number, LAMBDA s : scene_names(evidence, s) = <<>>)
    IN  IF empty_scenes # <<>>
        THEN Result(FALSE, <<[kind |-> "empty scenes", scenes |-> sorted(empty_scenes)]>>)
        ELSE Result(TRUE, <<[kind |-> "all scenes", count |-> Len(scenes_by_number)]>>)

(***************************************************************************)
(* Grouping and appearances (validators/character_analysis.py).            *)
(***************************************************************************)
\* the names of the analysis entries that carry the given label, in dict order
names_labelled(analysis, label) ==
    names_of(SelectSeq(analysis, LAMBDA entry : entry.difficulty = label))

\* every name appended to the list of the first label, whatever its own
names_under_first_label(analysis, label) ==
    IF label = "VERY EASY" THEN names_of(analysis) ELSE <<>>

\* by_difficulty[label] when the loop over clue_analysis.items() has ended
by_difficulty(analysis, label) == names_labelled(analysis, label)

analyze_character_difficulty(analysis) ==
    [label \in Range(DifficultyLabels) |-> by_difficulty(analysis, label)]

\* the dict name -> number of distinct scenes, as the sequence of its items
analyze_character_appearances(chars, evidence) ==
    [i \in DOMAIN chars |->
        LET evs == char_evidence(evidence, chars[i].name)
        IN  [name |-> chars[i].name,
             scenes |-> Cardinality({evs[j].scene_number : j \in DOMAIN evs})]]

(***************************************************************************)
(* Loaders (loaders.py).  A CSV file is missing (None) or holds a header   *)
(* and rows; `header` tells whether the header has every column the loader *)
(* reads (a header that lacks one lacks characterName or sceneNumber, the  *)
(* first cell read), and a row is the record of the cells that a function  *)
(* of the engine reads (the other cells are empty).                        *)
(***************************************************************************)
CsvFile(header, rows) == Some([header |-> header, rows |-> rows])

\* the decimal strings of the datasets, and int() on one of them
Numerals == <<"0", "1", "2", "3", "4", "5", "6", "7", "8", "9">>

is_int(value) == value \in Range(Numerals) \cup {"-1"}

int(value) ==
    IF value = "-1" THEN -1
    ELSE (CHOOSE i \in DOMAIN Numerals : Numerals[i] = value) - 1

_str_to_bool(value) == value \in {"true", "True", "TRUE"}

_str_to_optional(value) == IF strip(value) = "" THEN None ELSE Some(strip(value))

_str_to_int(value) ==
    IF strip(value) = "" \/ ~is_int(strip(value)) THEN None
    ELSE Some(int(strip(value)))

\* the exception that open() or the first row's first cell raises, or ""
open_and_read_raises(file) ==
    IF file = None THEN "FileNotFoundError"
    ELSE IF file[1].rows # <<>> /\ ~file[1].header THEN "KeyError"
    ELSE ""

character_of(row) ==
    Character(strip(row.characterName), _str_to_optional(row.causeOfDeath),
              _str_to_optional(row.responsibleParty),
              _str_to_int(row.deathSceneNumber))

\* the rows whose name no earlier row has: a duplicate is skipped
RECURSIVE first_rows(_, _)
first_rows(rows, seen) ==
    IF rows = <<>> THEN <<>>
    ELSE IF strip(Head(rows).characterName) \in seen
         THEN first_rows(Tail(rows), seen)
         ELSE <<Head(rows)>>
              \o first_rows(Tail(rows), seen \cup {strip(Head(rows).characterName)})

load_characters_raises(file) == open_and_read_raises(file)

\* the dict returned when nothing is raised
load_characters(file) ==
    LET rows == first_rows(file[1].rows, {})
    IN  [i \in DOMAIN rows |-> character_of(rows[i])]

has_bad_number(rows, column) == \E i \in DOMAIN rows : ~is_int(rows[i][column])

evidence_of(row) ==
    [FullSceneEvidence(strip(row.characterName), int(row.sceneNumber),
                       _str_to_bool(row.diesInThisScene))
        EXCEPT !.uniform_visible = _str_to_bool(row.uniformVisible)]

load_scene_evidence_raises(file) ==
    IF open_and_read_raises(file) # "" THEN open_and_read_raises(file)
    ELSE IF has_bad_number(file[1].rows, "sceneNumber") THEN "ValueError"
    ELSE ""

load_scene_evidence(file) ==
    [i \in DOMAIN file[1].rows |-> evidence_of(file[1].rows[i])]

dialogue_of(row) ==
    Dialogue(int(row.sceneNumber), int(row.lineNumber), strip(row.speaker))

load_dialogue_raises(file) ==
    IF open_and_read_raises(file) # "" THEN open_and_read_raises(file)
    ELSE IF has_bad_number(file[1].rows, "sceneNumber")
            \/ has_bad_number(file[1].rows, "lineNumber") THEN "ValueError"
    ELSE ""

load_dialogue(file) ==
    [i \in DOMAIN file[1].rows |-> dialogue_of(file[1].rows[i])]

(***************************************************************************)
(* The entry point (main.py).                                              *)
(***************************************************************************)
\* the dict validation_results, as the sequence of its items
validation_results(chars, evidence, dlg, groups) ==
    <<[name |-> "Everyone Appears",
       result |-> check_everyone_appears(chars, evidence)],
      [name |-> "Death Scenes Valid",
       result |-> check_every_death_has_a_scene(chars, evidence)],
      [name |-> "Characters Have Identifying Clues",
       result |-> check_every_character_has_identifying_clues(chars, evidence)],
      [name |-> "Scenes Have Characters",
       result |-> check_scenes_have_characters(evidence)],
      [name |-> "Dialogue Speakers Exist",
       result |-> check_dialogue_speakers_exist(chars, dlg)],
      [name |-> "Timeline Consistency",
       result |-> check_timeline_consistency(chars, evidence)],
      [name |-> "Difficulty Balance",
       result |-> check_difficulty_balance(groups)]>>

\* all(passed for passed, _ in validation_results.values())
all_passed(results) == \A i \in DOMAIN results : results[i].result.passed

\* the keys of difficulty_order
difficulty_order == {"VERY HARD", "HARD", "MEDIUM", "EASY"}

\* the exception that the sections after the validation report raise, or ""
balance_report_raises(chars, analysis) ==
    IF chars = <<>> THEN "ZeroDivisionError"
    ELSE IF \E i \in DOMAIN analysis : analysis[i].difficulty \notin difficulty_order
         THEN "KeyError"
         ELSE ""

(***************************************************************************)
(* Datasets.  A dataset is what the loaders return (loaders.py): names are *)
(* stripped strings, optional fields are None or non-empty, scene numbers  *)
(* are integers.  Character rows are kept in the order Alice, Bob, then a  *)
(* character whose name is one of the killer sentinels.                    *)
(***************************************************************************)
Scenes == 1..MaxScene

\* the rows of characters.csv a slot can hold; <<>> is "no such row"
Slot(n, causes, killers, death_scenes) ==
    {<<>>} \cup {<<Character(n, c, k, ds)>> :
                    c \in causes, k \in killers, ds \in death_scenes}

EvidenceRows(names, flags) ==
    {SceneEvidence(n, s, d) : n \in names, s \in Scenes, d \in flags}

SeqsUpTo(S, n) == UNION {[1..k -> S] : k \in 0..n}

NoResult == Result(FALSE, <<>>)

\* what a specification does not use stays empty
NoDialogue == dialogue = <<>>
NoBalance == difficulty_groups = <<>> /\ scene_complexity = <<>> /\ clue_analysis = <<>>

TypeIdle ==
    /\ all_clue_counts = <<>>
    /\ thresholds = <<>>
    /\ difficulty = <<>>
    /\ result = NoResult
    /\ returned = <<>>
    /\ files = <<>>

(***************************************************************************)
(* SpecBasic: check_everyone_appears and check_every_death_has_a_scene on  *)
(* every dataset of at most two characters (Alice, Bob; alive, or dead in  *)
(* some scene, or with death_scene 0) and at most MaxEvidence records.     *)
(***************************************************************************)
BasicDeathScenes == {None} \cup {Some(s) : s \in 0..MaxScene}

InitBasic ==
    /\ \E a \in Slot("Alice", {None}, {None}, BasicDeathScenes),
          b \in Slot("Bob", {None}, {None}, BasicDeathScenes) :
            characters = a \o b
    /\ scene_evidence \in SeqsUpTo(EvidenceRows({"Alice", "Bob"}, BOOLEAN), MaxEvidence)
    /\ pc \in {"check_everyone_appears", "check_every_death_has_a_scene"}
    /\ TypeIdle /\ NoDialogue /\ NoBalance

CheckEveryoneAppears ==
    /\ pc = "check_everyone_appears"
    /\ result' = check_everyone_appears(characters, scene_evidence)
    /\ pc' = "done: check_everyone_appears"
    /\ UNCHANGED <<characters, scene_evidence, all_clue_counts, thresholds, difficulty>>
    /\ UNCHANGED files
    /\ UNCHANGED <<returned, dialogue, difficulty_groups, scene_complexity, clue_analysis>>

CheckEveryDeathHasAScene ==
    /\ pc = "check_every_death_has_a_scene"
    /\ result' = check_every_death_has_a_scene(characters, scene_evidence)
    /\ pc' = "done: check_every_death_has_a_scene"
    /\ UNCHANGED <<characters, scene_evidence, all_clue_counts, thresholds, difficulty>>
    /\ UNCHANGED files
    /\ UNCHANGED <<returned, dialogue, difficulty_groups, scene_complexity, clue_analysis>>

NextBasic == CheckEveryoneAppears \/ CheckEveryDeathHasAScene

SpecBasic == InitBasic /\ [][NextBasic]_vars

(***************************************************************************)
(* SpecTimeline: check_timeline_consistency on every dataset of Alice (a   *)
(* survivor or a victim whose responsible party is nobody, Bob, or one of  *)
(* the sentinels), Bob (a survivor or a victim of Alice), an optional      *)
(* third character whose name is spelled like a sentinel, and at most      *)
(* MaxEvidence records of Alice, Bob and the character "Self-inflicted".   *)
(***************************************************************************)
TimelineRows(n, killers) ==
    {<<>>, <<Character(n, None, None, None)>>}
    \cup {<<Character(n, None, k, Some(s))>> : k \in killers, s \in Scenes}

InitTimeline ==
    /\ \E a \in TimelineRows("Alice", {None, Some("Bob"), Some("Accident"),
                                       Some("Self-inflicted")}),
          b \in TimelineRows("Bob", {Some("Alice")}),
          c \in {<<>>, <<Character("Accident", None, None, None)>>,
                 <<Character("Self-inflicted", None, None, None)>>} :
            characters = a \o b \o c
    /\ scene_evidence \in
          SeqsUpTo(EvidenceRows({"Alice", "Bob"}, BOOLEAN)
                   \cup EvidenceRows({"Self-inflicted"}, {FALSE}), MaxEvidence)
    /\ pc = "check_timeline_consistency"
    /\ TypeIdle /\ NoDialogue /\ NoBalance

CheckTimelineConsistency ==
    /\ pc = "check_timeline_consistency"
    /\ result' = check_timeline_consistency(characters, scene_evidence)
    /\ pc' = "done: check_timeline_consistency"
    /\ UNCHANGED <<characters, scene_evidence, all_clue_counts, thresholds, difficulty>>
    /\ UNCHANGED files
    /\ UNCHANGED <<returned, dialogue, difficulty_groups, scene_complexity, clue_analysis>>

NextTimeline == CheckTimelineConsistency

SpecTimeline == InitTimeline /\ [][NextTimeline]_vars

(***************************************************************************)
(* SpecDifficulty: the second half of analyze_clues_per_character, applied *)
(* to the clue counts left by its first pass: every vector of at most      *)
(* MaxCharacters counts in 0..MaxClues, the ten counts 1..10 of the        *)
(* specification's scenario 4 in some dict order, and every vector of ten  *)
(* counts that are 0 or MaxClues.                                          *)
(***************************************************************************)
Scenario4 == <<7, 2, 9, 4, 1, 10, 3, 8, 5, 6>>

InitDifficulty ==
    /\ all_clue_counts \in
          SeqsUpTo(0..MaxClues, MaxCharacters)
          \cup {Scenario4}
          \cup [DOMAIN Scenario4 -> {0, MaxClues}]
    /\ characters = <<>>
    /\ scene_evidence = <<>>
    /\ thresholds = <<>>
    /\ difficulty = <<>>
    /\ result = NoResult
    /\ returned = <<>>
    /\ files = <<>>
    /\ NoDialogue /\ NoBalance
    /\ pc = "_calculate_difficulty_thresholds"

CalculateDifficultyThresholds ==
    /\ pc = "_calculate_difficulty_thresholds"
    /\ LET t == _calculate_difficulty_thresholds(all_clue_counts)
       IN  IF t = IndexError
           THEN pc' = "IndexError" /\ UNCHANGED thresholds
           ELSE pc' = "_calculate_difficulty" /\ thresholds' = t
    /\ UNCHANGED <<characters, scene_evidence, all_clue_counts, difficulty, result>>
    /\ UNCHANGED files
    /\ UNCHANGED <<returned, dialogue, difficulty_groups, scene_complexity, clue_analysis>>

\* the second pass: one label per analysed character
AssignDifficulty ==
    /\ pc = "_calculate_difficulty"
    /\ difficulty' = [i \in DOMAIN all_clue_counts |->
                         _calculate_difficulty(all_clue_counts[i], thresholds)]
    /\ pc' = "done: analyze_clues_per_character"
    /\ UNCHANGED <<characters, scene_evidence, all_clue_counts, thresholds, result>>
    /\ UNCHANGED files
    /\ UNCHANGED <<returned, dialogue, difficulty_groups, scene_complexity, clue_analysis>>

NextDifficulty == CalculateDifficultyThresholds \/ AssignDifficulty

SpecDifficulty == InitDifficulty /\ [][NextDifficulty]_vars

(***************************************************************************)
(* SpecBalance: check_difficulty_balance on every grouping of a cast into  *)
(* the five labels with at most MaxGroup names per label (the five empty   *)
(* groups included), and on every grouping of twenty characters that has   *)
(* no VERY EASY and no EASY name.                                          *)
(***************************************************************************)
\* n names of the cast, from the one after position `from`
Span(from, n) == [i \in 1..n |-> Cast[from + i]]

\* the groups analyze_character_difficulty returns for the given sizes
GroupsOf(ve, e, m, h, vh) ==
    [l \in Range(DifficultyLabels) |->
        CASE l = "VERY EASY" -> Span(0, ve)
          [] l = "EASY" -> Span(ve, e)
          [] l = "MEDIUM" -> Span(ve + e, m)
          [] l = "HARD" -> Span(ve + e + m, h)
          [] l = "VERY HARD" -> Span(ve + e + m + h, vh)]

InitBalance ==
    /\ difficulty_groups \in
          {GroupsOf(ve, e, m, h, vh) :
              ve \in 0..MaxGroup, e \in 0..MaxGroup, m \in 0..MaxGroup,
              h \in 0..MaxGroup, vh \in 0..MaxGroup}
          \cup {GroupsOf(0, 0, mh[1], mh[2], 20 - mh[1] - mh[2]) :
                   mh \in {x \in (0..20) \X (0..20) : x[1] + x[2] <= 20}}
    /\ characters = <<>>
    /\ scene_evidence = <<>>
    /\ scene_complexity = <<>>
    /\ clue_analysis = <<>>
    /\ pc = "check_difficulty_balance"
    /\ TypeIdle /\ NoDialogue

CheckDifficultyBalance ==
    /\ pc = "check_difficulty_balance"
    /\ LET r == check_difficulty_balance(difficulty_groups)
       IN  /\ result' = r
           /\ pc' = IF r = ZeroDivisionError THEN "ZeroDivisionError"
                    ELSE "done: check_difficulty_balance"
    /\ UNCHANGED <<characters, scene_evidence, all_clue_counts, thresholds, difficulty>>
    /\ UNCHANGED files
    /\ UNCHANGED <<returned, dialogue, difficulty_groups, scene_complexity, clue_analysis>>

NextBalance == CheckDifficultyBalance

SpecBalance == InitBalance /\ [][NextBalance]_vars

(***************************************************************************)
(* SpecScenes: analyze_scene_complexity, then check_scene_complexity on    *)
(* its result, or else check_scenes_have_characters on the same records.   *)
(* The records are either any list of at most MaxEvidence                  *)
(* records of Alice and Bob, or, scene after scene in either order, the    *)
(* records of the first k names of the cast (k up to MaxCast, chosen per   *)
(* scene), the first of them possibly recorded twice.                      *)
(***************************************************************************)
\* the records of one scene: k names, the first one twice when dup
SceneBlock(s, k, dup) ==
    (IF dup /\ k > 0 THEN <<SceneEvidence(Cast[1], s, FALSE)>> ELSE <<>>)
    \o [i \in 1..k |-> SceneEvidence(Cast[i], s, FALSE)]

SceneBlocks == [Scenes -> (0..MaxCast) \X BOOLEAN]

InEitherOrder(blocks) ==
    {Flatten([s \in Scenes |-> SceneBlock(s, blocks[s][1], blocks[s][2])]),
     Flatten([s \in Scenes |->
                 SceneBlock(MaxScene + 1 - s, blocks[MaxScene + 1 - s][1],
                            blocks[MaxScene + 1 - s][2])])}

InitScenes ==
    /\ scene_evidence \in
          SeqsUpTo(EvidenceRows({"Alice", "Bob"}, {FALSE}), MaxEvidence)
          \cup UNION {InEitherOrder(blocks) : blocks \in SceneBlocks}
    /\ characters = <<>>
    /\ difficulty_groups = <<>>
    /\ scene_complexity = <<>>
    /\ clue_analysis = <<>>
    /\ pc \in {"analyze_scene_complexity", "check_scenes_have_characters"}
    /\ TypeIdle /\ NoDialogue

AnalyzeSceneComplexity ==
    /\ pc = "analyze_scene_complexity"
    /\ scene_complexity' = analyze_scene_complexity(scene_evidence)
    /\ pc' = "check_scene_complexity"
    /\ UNCHANGED <<characters, scene_evidence, all_clue_counts, thresholds, difficulty>>
    /\ UNCHANGED files
    /\ UNCHANGED <<returned, dialogue, difficulty_groups, clue_analysis, result>>

CheckSceneComplexity ==
    /\ pc = "check_scene_complexity"
    /\ LET r == check_scene_complexity(scene_complexity)
       IN  /\ result' = r
           /\ pc' = IF r = ZeroDivisionError THEN "ZeroDivisionError"
                    ELSE "done: check_scene_complexity"
    /\ UNCHANGED <<characters, scene_evidence, all_clue_counts, thresholds, difficulty>>
    /\ UNCHANGED files
    /\ UNCHANGED <<returned, dialogue, difficulty_groups, scene_complexity, clue_analysis>>

CheckScenesHaveCharacters ==
    /\ pc = "check_scenes_have_characters"
    /\ result' = check_scenes_have_characters(scene_evidence)
    /\ pc' = "done: check_scenes_have_characters"
    /\ UNCHANGED <<characters, scene_evidence, all_clue_counts, thresholds, difficulty>>
    /\ UNCHANGED files
    /\ UNCHANGED <<returned, dialogue, difficulty_groups, scene_complexity, clue_analysis>>

NextScenes ==
    AnalyzeSceneComplexity \/ CheckSceneComplexity \/ CheckScenesHaveCharacters

SpecScenes == InitScenes /\ [][NextScenes]_vars

(***************************************************************************)
(* SpecAttribution: check_death_attribution_completeness on every dataset  *)
(* of at most two characters whose cause of death and responsible party    *)
(* are None, empty, blank or a text, and whose death_scene is None, 0 or a *)
(* scene.  (The loaders turn an empty cell into None; an empty or blank    *)
(* text is what a caller building Character records directly can pass.)    *)
(***************************************************************************)
FreeText(text) == {None, Some(""), Some("  "), Some(text)}

InitAttribution ==
    /\ \E a \in Slot("Alice", FreeText("Stabbed"), FreeText("Bob"), BasicDeathScenes),
          b \in Slot("Bob", FreeText("Fell"), FreeText("Accident"), BasicDeathScenes) :
            characters = a \o b
    /\ scene_evidence = <<>>
    /\ pc = "check_death_attribution_completeness"
    /\ TypeIdle /\ NoDialogue /\ NoBalance

CheckDeathAttributionCompleteness ==
    /\ pc = "check_death_attribution_completeness"
    /\ result' = check_death_attribution_completeness(characters)
    /\ pc' = "done: check_death_attribution_completeness"
    /\ UNCHANGED <<characters, scene_evidence, all_clue_counts, thresholds, difficulty>>
    /\ UNCHANGED files
    /\ UNCHANGED <<returned, dialogue, difficulty_groups, scene_complexity, clue_analysis>>

NextAttribution == CheckDeathAttributionCompleteness

SpecAttribution == InitAttribution /\ [][NextAttribution]_vars

(***************************************************************************)
(* SpecDialogue: check_dialogue_speakers_exist on every dataset of at most *)
(* two living characters and at most MaxDialogue lines spoken by Alice, by *)
(* Bob, by nobody (the empty cell the loader leaves empty) or by a blank   *)
(* name.                                                                   *)
(***************************************************************************)
Speakers == {"", "  ", "Alice", "Bob"}

DialogueLines(speakers) == [i \in DOMAIN speakers |-> Dialogue(1, i, speakers[i])]

InitDialogue ==
    /\ \E a \in Slot("Alice", {None}, {None}, {None}),
          b \in Slot("Bob", {None}, {None}, {None}) :
            characters = a \o b
    /\ scene_evidence = <<>>
    /\ dialogue \in {DialogueLines(speakers) : speakers \in SeqsUpTo(Speakers, MaxDialogue)}
    /\ pc = "check_dialogue_speakers_exist"
    /\ TypeIdle /\ NoBalance

CheckDialogueSpeakersExist ==
    /\ pc = "check_dialogue_speakers_exist"
    /\ result' = check_dialogue_speakers_exist(characters, dialogue)
    /\ pc' = "done: check_dialogue_speakers_exist"
    /\ UNCHANGED <<characters, scene_evidence, all_clue_counts, thresholds, difficulty>>
    /\ UNCHANGED files
    /\ UNCHANGED <<returned, dialogue, difficulty_groups, scene_complexity, clue_analysis>>

NextDialogue == CheckDialogueSpeakersExist

SpecDialogue == InitDialogue /\ [][NextDialogue]_vars

(***************************************************************************)
(* SpecClues: analyze_clues_per_character, then                            *)
(* check_every_character_has_identifying_clues, on every dataset of at     *)
(* most two living characters and either at most MaxEvidence records of    *)
(* Alice and Bob, each without a clue, with a death flag and descriptions  *)
(* but no clue, with one clue or with all fourteen, or one record of Alice *)
(* with any single clue.                                                   *)
(***************************************************************************)
ClueSignals ==
    Flags \cup {"additional_visual_clues", "additional_dialogue_clues",
                "additional_contextual_clues"}

Descriptions == Texts \ ClueSignals

ClueRows(names) ==
    UNION {{FullSceneEvidence(n, s, FALSE),
            Filled(FullSceneEvidence(n, s, TRUE), Descriptions),
            Filled(FullSceneEvidence(n, s, FALSE), {"uniform_visible"}),
            Filled(FullSceneEvidence(n, s, FALSE), ClueSignals)} :
              n \in names, s \in Scenes}

SingleClueRows(n) == {Filled(FullSceneEvidence(n, 1, FALSE), {f}) : f \in ClueSignals}

InitClues ==
    /\ \E a \in Slot("Alice", {None}, {None}, {None}),
          b \in Slot("Bob", {None}, {None}, {None}) :
            characters = a \o b
    /\ scene_evidence \in
          SeqsUpTo(ClueRows({"Alice", "Bob"}), MaxEvidence)
          \cup {<<ev>> : ev \in SingleClueRows("Alice")}
    /\ pc = "analyze_clues_per_character"
    /\ TypeIdle /\ NoDialogue /\ NoBalance

AnalyzeCluesPerCharacter ==
    /\ pc = "analyze_clues_per_character"
    /\ IF _calculate_difficulty_thresholds(
              first_pass_counts(characters, scene_evidence)) = IndexError
       THEN pc' = "IndexError" /\ UNCHANGED clue_analysis
       ELSE /\ clue_analysis' = analyze_clues_per_character(characters, scene_evidence)
            /\ pc' = "check_every_character_has_identifying_clues"
    /\ UNCHANGED <<characters, scene_evidence, all_clue_counts, thresholds, difficulty>>
    /\ UNCHANGED files
    /\ UNCHANGED <<returned, dialogue, difficulty_groups, scene_complexity, result>>

CheckEveryCharacterHasIdentifyingClues ==
    /\ pc = "check_every_character_has_identifying_clues"
    /\ result' = check_every_character_has_identifying_clues(characters, scene_evidence)
    /\ pc' = "done: check_every_character_has_identifying_clues"
    /\ UNCHANGED <<characters, scene_evidence, all_clue_counts, thresholds, difficulty>>
    /\ UNCHANGED files
    /\ UNCHANGED <<returned, dialogue, difficulty_groups, scene_complexity, clue_analysis>>

NextClues == AnalyzeCluesPerCharacter \/ CheckEveryCharacterHasIdentifyingClues

SpecClues == InitClues /\ [][NextClues]_vars

(***************************************************************************)
(* SpecDiversity: check_clue_type_diversity on the analysis of Alice with  *)
(* up to MaxTypeClues visual, up to MaxTypeClues dialogue and at most one  *)
(* role clue, alone or followed by Bob with no clue, five visual clues, or *)
(* four visual clues and a role clue; and on the analysis of eleven        *)
(* characters with five visual clues each.                                 *)
(***************************************************************************)
\* analysis[name] before the second pass, for the given counts
Tally(n, visual, dialogue_, role) ==
    [name |-> n,
     total_clues |-> visual + dialogue_ + role,
     clue_types |-> [visual |-> visual, dialogue |-> dialogue_, contextual |-> 0,
                     relationship |-> 0, role |-> role],
     scenes_with_clues |-> IF visual + dialogue_ + role > 0 THEN 1 ELSE 0,
     difficulty |-> None]

\* the second pass of analyze_clues_per_character
Rated(first_pass) ==
    LET t == _calculate_difficulty_thresholds(
                 [i \in DOMAIN first_pass |-> first_pass[i].total_clues])
    IN  [i \in DOMAIN first_pass |->
            [first_pass[i] EXCEPT
                !.difficulty = _calculate_difficulty(first_pass[i].total_clues, t)]]

InitDiversity ==
    /\ clue_analysis \in
          {Rated(<<Tally("Alice", v, d, r)>> \o bob) :
              v \in 0..MaxTypeClues, d \in 0..MaxTypeClues, r \in 0..1,
              bob \in {<<>>, <<Tally("Bob", 0, 0, 0)>>, <<Tally("Bob", 5, 0, 0)>>,
                       <<Tally("Bob", 4, 0, 1)>>}}
          \cup {Rated([i \in 1..11 |-> Tally(Cast[i], 5, 0, 0)])}
    /\ characters = <<>>
    /\ scene_evidence = <<>>
    /\ difficulty_groups = <<>>
    /\ scene_complexity = <<>>
    /\ pc = "check_clue_type_diversity"
    /\ TypeIdle /\ NoDialogue

CheckClueTypeDiversity ==
    /\ pc = "check_clue_type_diversity"
    /\ result' = check_clue_type_diversity(clue_analysis)
    /\ pc' = "done: check_clue_type_diversity"
    /\ UNCHANGED <<characters, scene_evidence, all_clue_counts, thresholds, difficulty>>
    /\ UNCHANGED files
    /\ UNCHANGED <<returned, dialogue, difficulty_groups, scene_complexity, clue_analysis>>

NextDiversity == CheckClueTypeDiversity

SpecDiversity == InitDiversity /\ [][NextDiversity]_vars

(***************************************************************************)
(* SpecFrame: the functions of validators.py and the clue analysis called  *)
(* on one dataset in any order, each at most once.  The dataset has Alice  *)
(* (absent, alive, or dead in scene 1), Bob (absent or alive), at most     *)
(* MaxEvidence records (Alice dying in scene 1 in uniform, or Bob in scene *)
(* 1 without a clue) and at most one dialogue line.                        *)
(***************************************************************************)
Functions ==
    {"check_everyone_appears", "check_every_death_has_a_scene",
     "check_every_character_has_identifying_clues", "check_scenes_have_characters",
     "check_dialogue_speakers_exist", "analyze_clues_per_character"}

\* what the function returns on the dataset as it is now
Returns(f) ==
    CASE f = "check_everyone_appears" ->
            check_everyone_appears(characters, scene_evidence)
      [] f = "check_every_death_has_a_scene" ->
            check_every_death_has_a_scene(characters, scene_evidence)
      [] f = "check_every_character_has_identifying_clues" ->
            check_every_character_has_identifying_clues(characters, scene_evidence)
      [] f = "check_scenes_have_characters" ->
            check_scenes_have_characters(scene_evidence)
      [] f = "check_dialogue_speakers_exist" ->
            check_dialogue_speakers_exist(characters, dialogue)
      [] f = "check_timeline_consistency" ->
            check_timeline_consistency(characters, scene_evidence)
      [] f = "check_difficulty_balance" ->
            check_difficulty_balance(difficulty_groups)
      [] f = "check_scene_complexity" ->
            check_scene_complexity(scene_complexity)
      [] f = "check_clue_type_diversity" ->
            check_clue_type_diversity(clue_analysis)
      [] f = "check_death_attribution_completeness" ->
            check_death_attribution_completeness(characters)
      [] f = "analyze_clues_per_character" ->
            analyze_clues_per_character(characters, scene_evidence)

InitFrame ==
    /\ \E a \in Slot("Alice", {None}, {None}, {None, Some(1)}),
          b \in Slot("Bob", {None}, {None}, {None}) :
            characters = a \o b
    /\ scene_evidence \in
          SeqsUpTo({Filled(FullSceneEvidence("Alice", 1, TRUE), {"uniform_visible"}),
                    FullSceneEvidence("Bob", 1, FALSE)}, MaxEvidence)
    /\ dialogue \in {DialogueLines(speakers) : speakers \in SeqsUpTo({"", "Alice"}, 1)}
    /\ pc = "calling"
    /\ TypeIdle /\ NoBalance

\* a call that consumes its input (scene_evidence.pop(0)), as no function does
CallConsuming(f) ==
    /\ pc = "calling"
    /\ f \notin DOMAIN returned
    /\ returned' = [g \in DOMAIN returned \cup {f} |->
                       IF g = f THEN Returns(f) ELSE returned[g]]
    /\ scene_evidence' = IF scene_evidence = <<>> THEN <<>> ELSE Tail(scene_evidence)
    /\ pc' = IF f = "analyze_clues_per_character" /\ characters = <<>>
             THEN "IndexError" ELSE "calling"
    /\ UNCHANGED <<characters, all_clue_counts, thresholds, difficulty>>
    /\ UNCHANGED files
    /\ UNCHANGED <<dialogue, difficulty_groups, scene_complexity, clue_analysis, result>>

\* one call: the function reads the dataset and returns; an exception ends the
\* program
Call(f) ==
    /\ pc = "calling"
    /\ f \notin DOMAIN returned
    /\ returned' = [g \in DOMAIN returned \cup {f} |->
                       IF g = f THEN Returns(f) ELSE returned[g]]
    /\ pc' = IF f = "analyze_clues_per_character" /\ characters = <<>>
             THEN "IndexError" ELSE "calling"
    /\ UNCHANGED <<characters, scene_evidence, all_clue_counts, thresholds, difficulty>>
    /\ UNCHANGED files
    /\ UNCHANGED <<dialogue, difficulty_groups, scene_complexity, clue_analysis, result>>

NextFrame == \E f \in Functions : Call(f)

SpecFrame == InitFrame /\ [][NextFrame]_vars

(***************************************************************************)
(* SpecChecks: any one check_* validator called on a dataset that may be   *)
(* empty in every part.  Alice is absent, alive, or killed by Bob in scene *)
(* 1; Bob is absent or alive; there are at most MaxEvidence records and at *)
(* most one dialogue line; the difficulty groups are empty or small; the   *)
(* scene complexity and the clue analysis are those of the records (the    *)
(* clue analysis of no character is the empty dict).                       *)
(***************************************************************************)
Checks ==
    {"check_everyone_appears", "check_every_death_has_a_scene",
     "check_every_character_has_identifying_clues", "check_scenes_have_characters",
     "check_dialogue_speakers_exist", "check_timeline_consistency",
     "check_difficulty_balance", "check_scene_complexity",
     "check_clue_type_diversity", "check_death_attribution_completeness"}

InitChecks ==
    /\ \E a \in Slot("Alice", {None}, {Some("Bob")}, {None, Some(1)}),
          b \in Slot("Bob", {None}, {None}, {None}) :
            characters = a \o b
    /\ scene_evidence \in
          SeqsUpTo({Filled(FullSceneEvidence("Alice", 1, TRUE), {"uniform_visible"}),
                    FullSceneEvidence("Bob", 1, FALSE)}, MaxEvidence)
    /\ dialogue \in {DialogueLines(speakers) : speakers \in SeqsUpTo({"", "Alice"}, 1)}
    /\ difficulty_groups \in
          {GroupsOf(0, 0, 0, 0, 0), GroupsOf(1, 0, 0, 0, 0), GroupsOf(0, 0, 0, 0, 1),
           GroupsOf(1, 1, 0, 1, 1)}
    /\ scene_complexity = analyze_scene_complexity(scene_evidence)
    /\ clue_analysis = IF characters = <<>> THEN <<>>
                       ELSE analyze_clues_per_character(characters, scene_evidence)
    /\ pc \in Checks
    /\ TypeIdle

\* the call of the validator that pc names
CallCheck ==
    /\ pc \in Checks
    /\ returned' = [f \in {pc} |-> Returns(pc)]
    /\ pc' = IF Returns(pc) = ZeroDivisionError THEN "ZeroDivisionError" ELSE "done"
    /\ UNCHANGED <<characters, scene_evidence, all_clue_counts, thresholds, difficulty>>
    /\ UNCHANGED files
    /\ UNCHANGED <<dialogue, difficulty_groups, scene_complexity, clue_analysis, result>>

NextChecks == CallCheck

SpecChecks == InitChecks /\ [][NextChecks]_vars

(***************************************************************************)
(* SpecMain: main() as a process, on the three files of data/exported.     *)
(* characters.csv is missing, lacks a column, or holds at most two rows of *)
(* Alice (alive, dead in scene 1, or with an unreadable death scene) and   *)
(* Bob; scene_evidence.csv is missing, lacks a column, or holds at most    *)
(* MaxEvidence rows, one of them with an unreadable scene number;          *)
(* dialogue.csv is missing, lacks a column, or holds at most one line.     *)
(* pc is the statement that runs next; an exception that main does not     *)
(* catch ends the process with pc naming it.                               *)
(***************************************************************************)
CharacterRow(n, ds) ==
    [characterName |-> n, causeOfDeath |-> "", responsibleParty |-> "",
     deathSceneNumber |-> ds]

EvidenceRow(n, s, d, u) ==
    [characterName |-> n, sceneNumber |-> s, diesInThisScene |-> d,
     uniformVisible |-> u]

DialogueRow(s, l, sp) == [sceneNumber |-> s, lineNumber |-> l, speaker |-> sp]

CharacterFiles ==
    {None, CsvFile(FALSE, <<CharacterRow("Alice", "")>>)}
    \cup {CsvFile(TRUE, rows) :
             rows \in SeqsUpTo({CharacterRow("Alice", ""), CharacterRow("Alice", "1"),
                                CharacterRow("Alice", "x"), CharacterRow("Bob", "")}, 2)}

EvidenceFiles ==
    {None, CsvFile(FALSE, <<EvidenceRow("Alice", "1", "true", "TRUE")>>)}
    \cup {CsvFile(TRUE, rows) :
             rows \in SeqsUpTo({EvidenceRow("Alice", "1", "true", "TRUE"),
                                EvidenceRow("Alice", "x", "false", ""),
                                EvidenceRow("Bob", "1", "false", "")}, MaxEvidence)}

DialogueFiles ==
    {None, CsvFile(FALSE, <<DialogueRow("1", "1", "Alice")>>)}
    \cup {CsvFile(TRUE, rows) :
             rows \in SeqsUpTo({DialogueRow("1", "1", "Alice"),
                                DialogueRow("1", "z", "Alice"),
                                DialogueRow("1", "1", "")}, 1)}

\* nothing is loaded or computed before main runs
MainStart ==
    /\ characters = <<>>
    /\ scene_evidence = <<>>
    /\ dialogue = <<>>
    /\ all_clue_counts = <<>>
    /\ thresholds = <<>>
    /\ difficulty = <<>>
    /\ result = NoResult
    /\ returned = <<>>
    /\ NoBalance
    /\ pc = "load_characters"

InitMain ==
    /\ files \in [characters : CharacterFiles, scene_evidence : EvidenceFiles,
                  dialogue : DialogueFiles]
    /\ MainStart

\* `returned` once the function f has returned v
Returned(f, v) ==
    [g \in DOMAIN returned \cup {f} |-> IF g = f THEN v ELSE returned[g]]

MainIdle == UNCHANGED <<all_clue_counts, thresholds, difficulty, result, files,
                        scene_complexity>>

LoadCharacters ==
    /\ pc = "load_characters"
    /\ IF load_characters_raises(files.characters) # ""
       THEN pc' = "except" /\ UNCHANGED characters
       ELSE /\ characters' = load_characters(files.characters)
            /\ pc' = "load_scene_evidence"
    /\ UNCHANGED <<scene_evidence, dialogue, clue_analysis, difficulty_groups, returned>>
    /\ MainIdle

LoadSceneEvidence ==
    /\ pc = "load_scene_evidence"
    /\ IF load_scene_evidence_raises(files.scene_evidence) # ""
       THEN pc' = "except" /\ UNCHANGED scene_evidence
       ELSE /\ scene_evidence' = load_scene_evidence(files.scene_evidence)
            /\ pc' = "load_dialogue"
    /\ UNCHANGED <<characters, dialogue, clue_analysis, difficulty_groups, returned>>
    /\ MainIdle

\* a loader call whose exception is swallowed, the run going on without lines
LoadDialogueSwallowing ==
    /\ pc = "load_dialogue"
    /\ dialogue' = IF load_dialogue_raises(files.dialogue) # "" THEN <<>>
                   ELSE load_dialogue(files.dialogue)
    /\ pc' = "analyze_clues_per_character"
    /\ UNCHANGED <<characters, scene_evidence, clue_analysis, difficulty_groups, returned>>
    /\ MainIdle

LoadDialogue ==
    /\ pc = "load_dialogue"
    /\ IF load_dialogue_raises(files.dialogue) # ""
       THEN pc' = "except" /\ UNCHANGED dialogue
       ELSE /\ dialogue' = load_dialogue(files.dialogue)
            /\ pc' = "analyze_clues_per_character"
    /\ UNCHANGED <<characters, scene_evidence, clue_analysis, difficulty_groups, returned>>
    /\ MainIdle

MainAnalyzeClues ==
    /\ pc = "analyze_clues_per_character"
    /\ IF _calculate_difficulty_thresholds(
              first_pass_counts(characters, scene_evidence)) = IndexError
       THEN pc' = "IndexError" /\ UNCHANGED <<clue_analysis, returned>>
       ELSE /\ clue_analysis' = analyze_clues_per_character(characters, scene_evidence)
            /\ returned' = Returned("analyze_clues_per_character", clue_analysis')
            /\ pc' = "analyze_character_appearances"
    /\ UNCHANGED <<characters, scene_evidence, dialogue, difficulty_groups>>
    /\ MainIdle

MainAnalyzeAppearances ==
    /\ pc = "analyze_character_appearances"
    /\ returned' = Returned("analyze_character_appearances",
                            analyze_character_appearances(characters, scene_evidence))
    /\ pc' = "analyze_character_difficulty"
    /\ UNCHANGED <<characters, scene_evidence, dialogue, clue_analysis, difficulty_groups>>
    /\ MainIdle

MainAnalyzeDifficulty ==
    /\ pc = "analyze_character_difficulty"
    /\ difficulty_groups' = analyze_character_difficulty(clue_analysis)
    /\ returned' = Returned("analyze_character_difficulty", difficulty_groups')
    /\ pc' = "validation_results"
    /\ UNCHANGED <<characters, scene_evidence, dialogue, clue_analysis>>
    /\ MainIdle

\* the seven validators, in the order of the dict literal
RunValidations ==
    /\ pc = "validation_results"
    /\ returned' = Returned("validation_results",
                            validation_results(characters, scene_evidence, dialogue,
                                               difficulty_groups))
    /\ pc' = "generate_simple_report"
    /\ UNCHANGED <<characters, scene_evidence, dialogue, clue_analysis, difficulty_groups>>
    /\ MainIdle

GenerateSimpleReport ==
    /\ pc = "generate_simple_report"
    /\ returned' = Returned("generate_simple_report", None)
    /\ pc' = "balance_report"
    /\ UNCHANGED <<characters, scene_evidence, dialogue, clue_analysis, difficulty_groups>>
    /\ MainIdle

\* the game balance analysis and the detailed character breakdown
BalanceReport ==
    /\ pc = "balance_report"
    /\ pc' = IF balance_report_raises(characters, clue_analysis) # ""
             THEN balance_report_raises(characters, clue_analysis)
             ELSE "return"
    /\ UNCHANGED <<characters, scene_evidence, dialogue, clue_analysis, difficulty_groups,
                   returned>>
    /\ MainIdle

\* `return 1` of the except clause, and the exit code of the last statement
Return ==
    /\ pc \in {"except", "return"}
    /\ returned' = Returned("main",
                            IF pc = "except" THEN 1
                            ELSE IF all_passed(returned["validation_results"]) THEN 0
                            ELSE 1)
    /\ pc' = "done: main"
    /\ UNCHANGED <<characters, scene_evidence, dialogue, clue_analysis, difficulty_groups>>
    /\ MainIdle

NextMain ==
    \/ LoadCharacters \/ LoadSceneEvidence \/ LoadDialogue
    \/ MainAnalyzeClues \/ MainAnalyzeAppearances \/ MainAnalyzeDifficulty
    \/ RunValidations \/ GenerateSimpleReport \/ BalanceReport \/ Return

SpecMain == InitMain /\ [][NextMain]_vars

(***************************************************************************)
(* SpecMainFair: the same process under the fairness that sequential       *)
(* execution gives (the interpreter runs the statements of main one after  *)
(* the other: a step that can be taken is taken), on the files that are    *)
(* missing, lack a column, are empty, or hold one or two rows.             *)
(***************************************************************************)
FairCharacterFiles ==
    {None, CsvFile(FALSE, <<CharacterRow("Alice", "")>>), CsvFile(TRUE, <<>>),
     CsvFile(TRUE, <<CharacterRow("Alice", "1")>>),
     CsvFile(TRUE, <<CharacterRow("Alice", "x"), CharacterRow("Bob", "")>>)}

FairEvidenceFiles ==
    {None, CsvFile(FALSE, <<EvidenceRow("Alice", "1", "true", "TRUE")>>),
     CsvFile(TRUE, <<>>),
     CsvFile(TRUE, <<EvidenceRow("Alice", "1", "true", "TRUE")>>),
     CsvFile(TRUE, <<EvidenceRow("Alice", "1", "true", "TRUE"),
                     EvidenceRow("Alice", "x", "false", "")>>),
     CsvFile(TRUE, <<EvidenceRow("Alice", "1", "true", "TRUE"),
                     EvidenceRow("Bob", "1", "false", "")>>)}

InitMainFair ==
    /\ files \in [characters : FairCharacterFiles, scene_evidence : FairEvidenceFiles,
                  dialogue : DialogueFiles]
    /\ MainStart

SpecMainFair == InitMainFair /\ [][NextMain]_vars /\ WF_vars(NextMain)

(***************************************************************************)
(* SpecAlive: check_every_death_has_a_scene, check_timeline_consistency or *)
(* check_death_attribution_completeness on every dataset of Alice (absent, *)
(* or with a death_scene that is None, negative, 0 or a scene, with or     *)
(* without a cause of death and a responsible party), Bob (absent, alive,  *)
(* or killed by Alice in scene 1) and at most MaxEvidence records.         *)
(***************************************************************************)
AnyDeathScene == {None} \cup {Some(s) : s \in -1..MaxScene}

InitAlive ==
    /\ \E a \in Slot("Alice", {None, Some("Frozen")}, {None, Some("Bob")}, AnyDeathScene),
          b \in {<<>>, <<Character("Bob", None, None, None)>>,
                 <<Character("Bob", Some("Stabbed"), Some("Alice"), Some(1))>>} :
            characters = a \o b
    /\ scene_evidence \in SeqsUpTo(EvidenceRows({"Alice", "Bob"}, BOOLEAN), MaxEvidence)
    /\ pc \in {"check_every_death_has_a_scene", "check_timeline_consistency",
               "check_death_attribution_completeness"}
    /\ TypeIdle /\ NoDialogue /\ NoBalance

NextAlive ==
    \/ CheckEveryDeathHasAScene
    \/ CheckTimelineConsistency
    \/ CheckDeathAttributionCompleteness

SpecAlive == InitAlive /\ [][NextAlive]_vars

(***************************************************************************)
(* SpecAnalysis: main from the analysis to the validators (main.py 50-80)  *)
(* on a loaded dataset without dialogue.  The dataset is the first k names *)
(* of the cast (k up to MaxCharacters, none included), alive, each with    *)
(* one record in scene 1 that fires up to MaxClues signals, the numbers of *)
(* signals going up or down along the rows; or ten names of the cast, the  *)
(* first j of them with MaxClues signals and the others with none; or      *)
(* Alice, with or without Bob, and at most MaxEvidence records of Alice,   *)
(* each without a clue, with a death flag and descriptions but no clue,    *)
(* with one clue or with all fourteen.                                     *)
(***************************************************************************)
\* the fourteen signals in the order analyze_clues_per_character tests them
SignalOrder ==
    <<"uniform_visible", "holding_something_distinctive",
      "distinctive_features_visible", "body_position_relevant",
      "additional_visual_clues", "accent_audible", "name_mentioned_in_dialogue",
      "additional_dialogue_clues", "environmental_context_relevant",
      "spatial_relationship_visible", "additional_contextual_clues",
      "relationship_mentioned", "role_mentioned", "role_behaviour_visible">>

\* one record of the character in scene 1 that fires the first c signals
RecordWithClues(n, c) ==
    Filled(FullSceneEvidence(n, 1, FALSE), {SignalOrder[i] : i \in 1..c})

Living(names) == [i \in DOMAIN names |-> Character(names[i], None, None, None)]

\* the counts go up along the dict order, or down
Monotone(c) ==
    \/ \A i, j \in DOMAIN c : i < j => c[i] <= c[j]
    \/ \A i, j \in DOMAIN c : i < j => c[i] >= c[j]

InitAnalysis ==
    /\ \/ \E k \in 0..MaxCharacters :
            \E c \in {v \in [1..k -> 0..MaxClues] : Monotone(v)} :
                /\ characters = Living(SubSeq(Cast, 1, k))
                /\ scene_evidence = [i \in 1..k |-> RecordWithClues(Cast[i], c[i])]
       \/ \E j \in 0..10 :
            /\ characters = Living(SubSeq(Cast, 1, 10))
            /\ scene_evidence =
                  [i \in 1..10 |-> RecordWithClues(Cast[i], IF i <= j THEN MaxClues ELSE 0)]
       \/ /\ characters \in {Living(<<"Alice">>), Living(<<"Alice", "Bob">>)}
          /\ scene_evidence \in SeqsUpTo(ClueRows({"Alice"}), MaxEvidence)
    /\ pc = "analyze_clues_per_character"
    /\ TypeIdle /\ NoDialogue /\ NoBalance

NextAnalysis ==
    \/ MainAnalyzeClues \/ MainAnalyzeAppearances \/ MainAnalyzeDifficulty
    \/ RunValidations

SpecAnalysis == InitAnalysis /\ [][NextAnalysis]_vars

(***************************************************************************)
(* Claims about the basic validators, checked under SpecBasic.             *)
(***************************************************************************)
DeathRecords(name) ==
    {i \in DOMAIN scene_evidence :
        /\ scene_evidence[i].character_name = name
        /\ scene_evidence[i].dies_in_this_scene}

ExactlyOneDeathRecordInDeathScene(c) ==
    /\ Cardinality(DeathRecords(c.name)) = 1
    /\ \A i \in DeathRecords(c.name) : scene_evidence[i].scene_number = c.death_scene[1]

\* C1: check_every_death_has_a_scene passes iff every dead character has exactly
\* one death-flagged evidence record and that record is in the character's
\* death_scene.
C1_PassesIffExactlyOneDeathRecord ==
    pc = "done: check_every_death_has_a_scene" =>
        (result.passed <=>
            \A i \in DOMAIN characters :
                is_dead(characters[i]) => ExactlyOneDeathRecordInDeathScene(characters[i]))

Unrecorded == {n \in Keys(characters) :
                 \A i \in DOMAIN scene_evidence : scene_evidence[i].character_name # n}

KnownEvidence ==
    SelectSeq(scene_evidence, LAMBDA ev : ev.character_name \in Keys(characters))

\* C2: check_everyone_appears passes iff every character name has at least one
\* evidence record; on failure the details list exactly the names without a
\* record; records naming a character outside the character set never change the
\* verdict.
C2_EveryoneAppears ==
    pc = "done: check_everyone_appears" =>
        /\ result.passed <=> Unrecorded = {}
        /\ ~result.passed =>
              /\ Len(result.details) = 1
              /\ Range(result.details[1].names) = Unrecorded
              /\ Len(result.details[1].names) = Cardinality(Unrecorded)
        /\ result.passed = check_everyone_appears(characters, KnownEvidence).passed

\* C2 witness: the check has failed on a dataset with a character without a
\* record and a record naming a character outside the character set.
C2_Witness ==
    /\ pc = "done: check_everyone_appears"
    /\ ~result.passed
    /\ Unrecorded # {}
    /\ Len(KnownEvidence) < Len(scene_evidence)

(***************************************************************************)
(* Claims about check_timeline_consistency, checked under SpecTimeline.    *)
(***************************************************************************)
TimelineDone == pc = "done: check_timeline_consistency"

Dead == {j \in DOMAIN characters : is_dead(characters[j])}

\* the GHOST lines of the result for a character and a scene
GhostLines(n, s) ==
    {i \in DOMAIN result.details :
        /\ result.details[i].kind = "GHOST"
        /\ result.details[i].name = n
        /\ result.details[i].scene = s}

\* the records of a dead character after its death_scene without the death flag
GhostRecords(n, s) ==
    {i \in DOMAIN scene_evidence :
        /\ scene_evidence[i].character_name = n
        /\ scene_evidence[i].scene_number = s
        /\ ~scene_evidence[i].dies_in_this_scene
        /\ \E j \in Dead : characters[j].name = n /\ s > characters[j].death_scene[1]}

\* C3: a GHOST violation is reported for exactly the records of a dead character
\* with scene_number > death_scene and dies_in_this_scene false; a record with
\* scene_number <= death_scene never produces one.
C3_GhostExactly ==
    TimelineDone =>
        /\ \A n \in Range(NameOrder), s \in Scenes :
              Cardinality(GhostLines(n, s)) = Cardinality(GhostRecords(n, s))
        /\ \A i \in DOMAIN result.details :
              result.details[i].kind = "GHOST" =>
                  /\ result.details[i].scene > result.details[i].death_scene
                  /\ \E j \in Dead :
                        /\ characters[j].name = result.details[i].name
                        /\ characters[j].death_scene[1] = result.details[i].death_scene

\* C3 witness: the check reported a ghost on a dataset where a dead character
\* also has a record in its death scene without the death flag.
C3_Witness ==
    /\ TimelineDone
    /\ \E n \in Range(NameOrder), s \in Scenes : GhostLines(n, s) # {}
    /\ \E j \in Dead, i \in DOMAIN scene_evidence :
          /\ scene_evidence[i].character_name = characters[j].name
          /\ scene_evidence[i].scene_number = characters[j].death_scene[1]
          /\ ~scene_evidence[i].dies_in_this_scene

\* the TIMELINE ERROR lines of the result for a victim
KillerLines(victim) ==
    {i \in DOMAIN result.details :
        /\ result.details[i].kind = "TIMELINE ERROR"
        /\ result.details[i].name = victim.name}

KillerAtDeathScene(victim) ==
    \E i \in DOMAIN scene_evidence :
        /\ scene_evidence[i].character_name = victim.killer[1]
        /\ scene_evidence[i].scene_number = victim.death_scene[1]

\* C4: for a dead victim whose killer is the name of a character of the set, a
\* killer-absence violation is reported iff no record has character_name = killer
\* and scene_number = death_scene; a killer outside the set gives no violation.
C4_KillerAbsence ==
    TimelineDone =>
        \A j \in Dead :
            characters[j].killer # None =>
                IF characters[j].killer[1] \in Keys(characters)
                THEN KillerLines(characters[j]) # {} <=> ~KillerAtDeathScene(characters[j])
                ELSE KillerLines(characters[j]) = {}

\* C4 as amended: the same for a killer that is a character of the set and is not
\* spelled "Accident"; a killer outside the set, or spelled "Accident", gives no
\* violation.
C4_KillerAbsenceExceptAccident ==
    TimelineDone =>
        \A j \in Dead :
            characters[j].killer # None =>
                IF /\ characters[j].killer[1] \in Keys(characters)
                   /\ characters[j].killer[1] # "Accident"
                THEN /\ KillerLines(characters[j]) # {}
                        <=> ~KillerAtDeathScene(characters[j])
                     /\ \A i \in KillerLines(characters[j]) :
                           /\ result.details[i].killer = characters[j].killer[1]
                           /\ result.details[i].death_scene = characters[j].death_scene[1]
                ELSE KillerLines(characters[j]) = {}

\* C4 witness: the check reported a victim whose killer is a character of the set
\* with no record in the death scene, on a dataset where another victim's killer
\* is not in the set.
C4_Witness ==
    /\ TimelineDone
    /\ \E j \in Dead : KillerLines(characters[j]) # {}
    /\ \E j \in Dead : /\ characters[j].killer # None
                       /\ characters[j].killer[1] \notin Keys(characters)
                       /\ characters[j].killer[1] # "Accident"

\* the victims the killer check counts: the killer is a character of the set not
\* spelled "Accident" (C4 as amended) and has no record in the death scene
AbsentKillerVictims ==
    {j \in Dead :
        /\ characters[j].killer # None
        /\ characters[j].killer[1] \in Keys(characters)
        /\ characters[j].killer[1] # "Accident"
        /\ ~KillerAtDeathScene(characters[j])}

AllGhostRecords ==
    {i \in DOMAIN scene_evidence :
        \E j \in Dead :
            /\ scene_evidence[i].character_name = characters[j].name
            /\ scene_evidence[i].scene_number > characters[j].death_scene[1]
            /\ ~scene_evidence[i].dies_in_this_scene}

C6_SentinelKillerNeverReported ==
    TimelineDone =>
        \A j \in Dead :
            (/\ characters[j].killer # None
             /\ characters[j].killer[1] \in {"Accident", "Self-inflicted"})
                => KillerLines(characters[j]) = {}

(***************************************************************************)
(* Claims about the difficulty classification, checked under               *)
(* SpecDifficulty.                                                         *)
(***************************************************************************)
ThresholdsDone == pc \in {"_calculate_difficulty", "done: analyze_clues_per_character"}

DifficultyDone == pc = "done: analyze_clues_per_character"

\* the value at 0-based position p of the counts in ascending order: fewer than
\* p + 1 counts lie below it and at least p + 1 counts are at most it
ValueAtSortedPosition(p) ==
    CHOOSE v \in Range(all_clue_counts) :
        /\ Cardinality({i \in DOMAIN all_clue_counts : all_clue_counts[i] < v}) <= p
        /\ Cardinality({i \in DOMAIN all_clue_counts : all_clue_counts[i] <= v}) > p

QuintilePosition(k) ==
    Min(k * (Len(all_clue_counts) \div 5), Len(all_clue_counts) - 1)

IsScenario4 ==
    /\ Len(all_clue_counts) = 10
    /\ Range(all_clue_counts) = 1..10

\* C7: for a non-empty vector of n counts the four thresholds are the values of
\* the ascending-sorted vector at positions min(k * (n div 5), n - 1), k = 1..4,
\* so they are ascending; for counts 1..10 they are 3, 5, 7, 9 and the characters
\* with 9, 8, 3, 1 clues are VERY EASY, EASY, HARD, VERY HARD.
C7_ThresholdsAtQuintilePositions ==
    /\ (ThresholdsDone /\ all_clue_counts # <<>>) =>
          /\ thresholds.hard_min = ValueAtSortedPosition(QuintilePosition(1))
          /\ thresholds.medium_min = ValueAtSortedPosition(QuintilePosition(2))
          /\ thresholds.easy_min = ValueAtSortedPosition(QuintilePosition(3))
          /\ thresholds.very_easy_min = ValueAtSortedPosition(QuintilePosition(4))
          /\ thresholds.hard_min <= thresholds.medium_min
          /\ thresholds.medium_min <= thresholds.easy_min
          /\ thresholds.easy_min <= thresholds.very_easy_min
    /\ (ThresholdsDone /\ IsScenario4) =>
          thresholds = [hard_min |-> 3, medium_min |-> 5,
                        easy_min |-> 7, very_easy_min |-> 9]
    /\ (DifficultyDone /\ IsScenario4) =>
          \A i \in DOMAIN all_clue_counts :
              /\ all_clue_counts[i] = 9 => difficulty[i] = "VERY EASY"
              /\ all_clue_counts[i] = 8 => difficulty[i] = "EASY"
              /\ all_clue_counts[i] = 3 => difficulty[i] = "HARD"
              /\ all_clue_counts[i] = 1 => difficulty[i] = "VERY HARD"

\* C7 witness: the thresholds of an unsorted vector of at least five counts have
\* been computed and are four different values.
C7_Witness ==
    /\ ThresholdsDone
    /\ Len(all_clue_counts) >= 5
    /\ all_clue_counts # sorted(all_clue_counts)
    /\ thresholds.hard_min < thresholds.medium_min
    /\ thresholds.medium_min < thresholds.easy_min
    /\ thresholds.easy_min < thresholds.very_easy_min

DifficultyOrder == <<"VERY HARD", "HARD", "MEDIUM", "EASY", "VERY EASY">>

\* 1 for VERY HARD up to 5 for VERY EASY
Ease(label) == CHOOSE r \in DOMAIN DifficultyOrder : DifficultyOrder[r] = label

AtBoundary(k) ==
    LET t == <<thresholds.hard_min, thresholds.medium_min,
               thresholds.easy_min, thresholds.very_easy_min>>
    IN  {i \in DOMAIN all_clue_counts : all_clue_counts[i] = t[k]}

\* C9: when several characters share the clue count found at a quintile boundary
\* position they all go in the lower (harder) of the two buckets the boundary
\* separates (boundary k separates DifficultyOrder[k] from DifficultyOrder[k + 1]).
\* Stated for vectors of at least five counts with four different thresholds,
\* where the four boundaries are different positions and values.
C9_TiesGoToHarderBucket ==
    (/\ DifficultyDone
     /\ Len(all_clue_counts) >= 5
     /\ thresholds.hard_min < thresholds.medium_min
     /\ thresholds.medium_min < thresholds.easy_min
     /\ thresholds.easy_min < thresholds.very_easy_min) =>
        \A k \in 1..4 :
            Cardinality(AtBoundary(k)) >= 2 =>
                \A i \in AtBoundary(k) : difficulty[i] = DifficultyOrder[k]

\* C10: within one run, a character with more clues never gets a harder label
\* than a character with fewer, and equal counts get equal labels.
C10_Monotonic ==
    DifficultyDone =>
        \A i, j \in DOMAIN all_clue_counts :
            /\ all_clue_counts[i] < all_clue_counts[j]
                  => Ease(difficulty[i]) <= Ease(difficulty[j])
            /\ all_clue_counts[i] = all_clue_counts[j] => difficulty[i] = difficulty[j]

\* C10 witness: a run labelled two characters with different counts alike and two
\* others differently, and two characters with the same count.
C10_Witness ==
    /\ DifficultyDone
    /\ \E i, j \in DOMAIN all_clue_counts :
          all_clue_counts[i] < all_clue_counts[j] /\ difficulty[i] = difficulty[j]
    /\ \E i, j \in DOMAIN all_clue_counts :
          all_clue_counts[i] < all_clue_counts[j] /\ difficulty[i] # difficulty[j]
    /\ \E i, j \in DOMAIN all_clue_counts :
          i # j /\ all_clue_counts[i] = all_clue_counts[j]

(***************************************************************************)
(* Claims about check_difficulty_balance, checked under SpecBalance.       *)
(***************************************************************************)
BalanceDone == pc = "done: check_difficulty_balance"

GroupSize(l) == Len(difficulty_groups[l])

GroupTotal == SumLen(difficulty_groups, 1)

EntryPoints == GroupSize("VERY EASY") + GroupSize("EASY")

HasLine(k) == \E i \in DOMAIN result.details : result.details[i].kind = k

\* C11: check_difficulty_balance passes iff there is at least one EASY or
\* VERY EASY character and the VERY HARD characters are not more than 15% of
\* the total; the two warnings are lines of the details that leave the verdict
\* alone, and twenty characters none of which is EASY or VERY EASY fail with
\* the "No EASY or VERY EASY characters" line.
C11_BalanceVerdict ==
    BalanceDone =>
        /\ result.passed <=>
              (EntryPoints >= 1 /\ 100 * GroupSize("VERY HARD") <= 15 * GroupTotal)
        /\ (HasLine("few entry points") <=> EntryPoints < 5)
        /\ (HasLine("few medium") <=> 100 * GroupSize("MEDIUM") < 20 * GroupTotal)
        /\ (EntryPoints = 0 /\ GroupTotal = 20 =>
              ~result.passed /\ HasLine("no entry points"))

\* a grouping that passes although both warnings are in the details
C11_Witness ==
    /\ BalanceDone
    /\ result.passed
    /\ HasLine("few entry points")
    /\ HasLine("few medium")
    /\ GroupSize("VERY HARD") > 0

(***************************************************************************)
(* Claims about the scene complexity, checked under SpecScenes.            *)
(***************************************************************************)
ScenesAnalysed == pc \in {"check_scene_complexity", "done: check_scene_complexity"}

ScenesDone == pc = "done: check_scene_complexity"

ScenesPresent == {scene_evidence[i].scene_number : i \in DOMAIN scene_evidence}

NamesIn(s) ==
    {scene_evidence[i].character_name :
        i \in {j \in DOMAIN scene_evidence : scene_evidence[j].scene_number = s}}

RatingOf(n) ==
    CASE n \in 1..2 -> "SIMPLE"
      [] n \in 3..6 -> "BALANCED"
      [] n \in 7..10 -> "COMPLEX"
      [] n >= 11 -> "OVERWHELMING"

\* C12: analyze_scene_complexity has exactly one entry per scene number present
\* in the evidence; the entry's character_count is the number of distinct names
\* recorded in the scene, is at least 1, and alone decides the rating: SIMPLE
\* for 1-2, BALANCED for 3-6, COMPLEX for 7-10, OVERWHELMING from 11.
C12_SceneComplexity ==
    ScenesAnalysed =>
        /\ {scene_complexity[i].scene_number : i \in DOMAIN scene_complexity}
              = ScenesPresent
        /\ Len(scene_complexity) = Cardinality(ScenesPresent)
        /\ \A i \in DOMAIN scene_complexity :
              LET info == scene_complexity[i]
              IN  /\ info.character_count = Cardinality(NamesIn(info.scene_number))
                  /\ info.character_count >= 1
                  /\ info.complexity_rating = RatingOf(info.character_count)

\* a COMPLEX scene of seven names, one of them recorded twice, next to an
\* OVERWHELMING scene of eleven
C12_Witness ==
    /\ ScenesAnalysed
    /\ \E i, j \in DOMAIN scene_complexity :
          /\ scene_complexity[i].character_count = 7
          /\ scene_complexity[i].complexity_rating = "COMPLEX"
          /\ scene_complexity[j].character_count = 11
          /\ scene_complexity[j].complexity_rating = "OVERWHELMING"
    /\ Len(scene_evidence) > 18

OverwhelmingEntries ==
    SelectSeq(scene_complexity, LAMBDA info : info.character_count > 10)

ListedScenes ==
    IF HasLine("overwhelming")
    THEN (CHOOSE l \in Range(result.details) : l.kind = "overwhelming").scenes
    ELSE <<>>

ScenesChecked == pc = "done: check_scenes_have_characters"

\* C18: check_scenes_have_characters returns passed = true for every evidence
\* list, the empty one included: a scene number is a key only because some
\* record names it, so no scene is reported as empty, and the details count
\* the scenes present.
C18_ScenesAlwaysHaveCharacters ==
    ScenesChecked =>
        /\ result.passed
        /\ ~HasLine("empty scenes")
        /\ result.details = <<[kind |-> "all scenes", count |-> Cardinality(ScenesPresent)]>>

\* the empty evidence list passes with zero scenes
C18_Witness ==
    /\ ScenesChecked
    /\ scene_evidence = <<>>
    /\ result.passed
    /\ result.details[1].count = 0

(***************************************************************************)
(* Claims about check_death_attribution_completeness, checked under        *)
(* SpecAttribution.                                                        *)
(***************************************************************************)
AttributionDone == pc = "done: check_death_attribution_completeness"

\* missing, empty, or nothing but whitespace
Blank(value) == value = None \/ value[1] \in {"", "  "}

LacksCause(c) == Blank(c.cause_of_death)

LacksKiller(c) == Blank(c.killer)

LacksScene(c) == c.death_scene = None

Lacks(c, field) ==
    CASE field = "cause_of_death" -> LacksCause(c)
      [] field = "killer" -> LacksKiller(c)
      [] field = "death_scene" -> LacksScene(c)

\* the names of the dead characters that lack the field, in dict order
DeadLacking(field) ==
    LET lacking == SelectSeq(characters, LAMBDA c : is_dead(c) /\ Lacks(c, field))
    IN  [i \in DOMAIN lacking |-> lacking[i].name]

\* the category has a line of its own with exactly its names, or no name and no line
ReportedApart(k, names) ==
    /\ HasLine(k) <=> names # <<>>
    /\ \A i \in DOMAIN result.details :
          result.details[i].kind = k => result.details[i].names = names
    /\ Cardinality({i \in DOMAIN result.details : result.details[i].kind = k}) <= 1

\* C14: check_death_attribution_completeness fails iff some dead character has
\* a missing, empty or whitespace-only cause_of_death, a missing, empty or
\* whitespace-only killer, or a null death_scene; each category that has a name
\* gets a line of its own with the names of that category, and all such
\* categories are reported in the same result.
C14_AttributionComplete ==
    AttributionDone =>
        /\ ~result.passed <=>
              \E i \in DOMAIN characters :
                  /\ is_dead(characters[i])
                  /\ \/ LacksCause(characters[i])
                     \/ LacksKiller(characters[i])
                     \/ LacksScene(characters[i])
        /\ ~result.passed =>
              /\ ReportedApart("missing cause", DeadLacking("cause_of_death"))
              /\ ReportedApart("missing killer", DeadLacking("killer"))
              /\ ReportedApart("missing scene", DeadLacking("death_scene"))

\* a whitespace-only cause of one victim and an empty killer of another, both
\* reported
C14_Witness ==
    /\ AttributionDone
    /\ ~result.passed
    /\ HasLine("missing cause") /\ HasLine("missing killer")
    /\ \E i, j \in DOMAIN characters :
          /\ i # j
          /\ is_dead(characters[i]) /\ characters[i].cause_of_death = Some("  ")
          /\ ~LacksKiller(characters[i])
          /\ is_dead(characters[j]) /\ characters[j].killer = Some("")
          /\ ~LacksCause(characters[j])

(***************************************************************************)
(* Claims about check_dialogue_speakers_exist, checked under SpecDialogue. *)
(***************************************************************************)
DialogueDone == pc = "done: check_dialogue_speakers_exist"

\* empty after trimming
BlankSpeaker(sp) == sp \in {"", "  "}

EmptySpeakerLines == {i \in DOMAIN dialogue : BlankSpeaker(dialogue[i].speaker)}

UnknownSpeakers ==
    {dialogue[i].speaker :
        i \in {j \in DOMAIN dialogue : /\ ~BlankSpeaker(dialogue[j].speaker)
                                       /\ dialogue[j].speaker \notin Keys(characters)}}

\* C15: check_dialogue_speakers_exist passes iff every line's speaker is
\* non-empty after trimming and is a key of the characters; a line with an
\* empty speaker is counted in the empty-speaker count and its speaker is never
\* among the unknown speakers; both the count and the unknown speakers are
\* reported in the same result.
C15_SpeakersExist ==
    DialogueDone =>
        /\ result.passed <=>
              \A i \in DOMAIN dialogue :
                  /\ ~BlankSpeaker(dialogue[i].speaker)
                  /\ dialogue[i].speaker \in Keys(characters)
        /\ ~result.passed =>
              /\ HasLine("empty speakers") <=> EmptySpeakerLines # {}
              /\ HasLine("unknown speakers") <=> UnknownSpeakers # {}
              /\ \A i \in DOMAIN result.details :
                    LET line == result.details[i]
                    IN  /\ line.kind = "empty speakers" =>
                              line.count = Cardinality(EmptySpeakerLines)
                        /\ line.kind = "unknown speakers" =>
                              /\ Range(line.names) = UnknownSpeakers
                              /\ \A n \in Range(line.names) : ~BlankSpeaker(n)

\* two lines without a speaker and a line of a speaker who is no character
C15_Witness ==
    /\ DialogueDone
    /\ Cardinality(EmptySpeakerLines) = 2
    /\ UnknownSpeakers # {}
    /\ HasLine("empty speakers") /\ HasLine("unknown speakers")

(***************************************************************************)
(* Claims about the clue validator and the clue tally, checked under       *)
(* SpecClues.                                                              *)
(***************************************************************************)
CluesDone == pc = "done: check_every_character_has_identifying_clues"

\* the clue signals a record carries
Fired(ev) ==
    {f \in ClueSignals \cap Flags : ev[f]}
    \cup {f \in ClueSignals \cap Texts : ev[f] # None /\ ev[f] # Some("")}

RecordsOf(name) ==
    {i \in DOMAIN scene_evidence : scene_evidence[i].character_name = name}

Clueless == {n \in Keys(characters) : \A i \in RecordsOf(n) : Fired(scene_evidence[i]) = {}}

ListedWithoutClues ==
    IF HasLine("no clues")
    THEN Range((CHOOSE l \in Range(result.details) : l.kind = "no clues").names)
    ELSE {}

\* C16: check_every_character_has_identifying_clues lists exactly the
\* characters none of whose evidence records carries any of the fourteen clue
\* signals (a character without a record is one of them), whatever
\* dies_in_this_scene and the description fields hold, and fails iff it lists
\* one; a character is listed iff analyze_clues_per_character gives it
\* total_clues = 0 on the same input.
C16_CluelessListedIffTallyZero ==
    CluesDone =>
        /\ ListedWithoutClues = Clueless
        /\ result.passed <=> Clueless = {}
        /\ Len(clue_analysis) = Len(characters)
        /\ \A i \in DOMAIN clue_analysis :
              clue_analysis[i].name \in ListedWithoutClues
                  <=> clue_analysis[i].total_clues = 0

\* Alice, whose only record has the death flag and every description but no
\* clue, is listed; Bob, with one clue, is not, and Alice has no other record
C16_Witness ==
    /\ CluesDone
    /\ ListedWithoutClues = {"Alice"}
    /\ "Bob" \in Keys(characters)
    /\ \E i \in RecordsOf("Alice") :
          /\ scene_evidence[i].dies_in_this_scene
          /\ scene_evidence[i].held_item_description # None
    /\ \E i \in DOMAIN clue_analysis :
          clue_analysis[i].name = "Bob" /\ clue_analysis[i].total_clues = 1

(***************************************************************************)
(* Claims about check_clue_type_diversity, checked under SpecDiversity.    *)
(***************************************************************************)
DiversityDone == pc = "done: check_clue_type_diversity"

LargestCategory(data) ==
    CHOOSE m \in {data.clue_types[k] : k \in Range(ClueTypes)} :
        \A k \in Range(ClueTypes) : data.clue_types[k] <= m

\* at least five clues, strictly more than 80% of them of one category
Dominated(data) ==
    data.total_clues >= 5 /\ 100 * LargestCategory(data) > 80 * data.total_clues

DominatedNames ==
    LET dominated == SelectSeq(clue_analysis, Dominated)
    IN  [i \in DOMAIN dominated |-> dominated[i].name]

FlaggedCount ==
    IF HasLine("unbalanced count")
    THEN (CHOOSE l \in Range(result.details) : l.kind = "unbalanced count").count
    ELSE 0

\* C17: check_clue_type_diversity returns passed = true for every clue
\* analysis; it flags exactly the characters with at least 5 clues whose
\* largest category holds strictly more than 80% of them, and the flagged
\* characters show in the details only.
C17_DiversityAlwaysPasses ==
    DiversityDone =>
        /\ result.passed
        /\ FlaggedCount = Len(DominatedNames)
        /\ HasLine("all diverse") <=> DominatedNames = <<>>
        /\ \A i \in DOMAIN result.details :
              result.details[i].kind = "unbalanced list" =>
                  DominatedNames = [j \in DOMAIN result.details[i].characters |->
                                       result.details[i].characters[j].name]

\* Bob with five clues of one type is flagged next to Alice, who has four of
\* five in one type and is not, and the check passes
C17_Witness ==
    /\ DiversityDone
    /\ result.passed
    /\ DominatedNames = <<"Bob">>
    /\ HasLine("unbalanced list")
    /\ clue_analysis[1].total_clues = 5
    /\ LargestCategory(clue_analysis[1]) = 4

Denominator(f) ==
    CASE f = "check_difficulty_balance" -> GroupTotal
      [] f = "check_scene_complexity" -> Len(scene_complexity)
      [] OTHER -> 1

\* C20: no check_* validator raises, whatever the dataset, empty characters,
\* empty evidence and dialogue lists, five empty difficulty groups and an empty
\* scene-complexity map included: each returns a (passed, details) pair, and
\* a percentage is computed by check_difficulty_balance and
\* check_scene_complexity only when its denominator is positive.
C20_NoCheckRaises ==
    /\ pc # "ZeroDivisionError"
    /\ \A f \in DOMAIN returned :
          /\ DOMAIN returned[f] = {"passed", "details"}
          /\ returned[f].passed \in BOOLEAN
          /\ \A i \in DOMAIN returned[f].details :
                "percent" \in DOMAIN returned[f].details[i] =>
                    /\ Denominator(f) > 0
                    /\ returned[f].details[i].percent # ZeroDivisionError

\* five empty groups next to an empty dataset: the validator returns a failure
C20_Witness ==
    /\ characters = <<>> /\ scene_evidence = <<>> /\ dialogue = <<>>
    /\ scene_complexity = <<>>
    /\ GroupTotal = 0
    /\ DOMAIN returned = {"check_difficulty_balance"}
    /\ ~returned["check_difficulty_balance"].passed

(***************************************************************************)
(* Claims about the entry point (SpecMain, SpecMainFair).                  *)
(***************************************************************************)
\* some loader raises when main calls it (the first that does ends the loading)
LoaderRaises ==
    \/ load_characters_raises(files.characters) # ""
    \/ load_scene_evidence_raises(files.scene_evidence) # ""
    \/ load_dialogue_raises(files.dialogue) # ""

MainReturned == "main" \in DOMAIN returned

\* the analysis functions, the validators and the report generation that ran
RanAfterLoading == DOMAIN returned \ {"main"}

ExitedWithOne == pc = "done: main" /\ MainReturned /\ returned["main"] = 1

LoadingOrExit ==
    {"load_characters", "load_scene_evidence", "load_dialogue", "except", "done: main"}

\* C21: when load_characters, load_scene_evidence or load_dialogue raises, main
\* returns the exit code 1, and no analysis function, no validator and no
\* report generation runs: the run never leaves the loading statements but for
\* the except clause and its return, nothing but main returns a value, no
\* analysis is ever stored, and the run ends with exit code 1.
C21_LoaderFailureIsFatal ==
    /\ [](LoaderRaises =>
            /\ pc \in LoadingOrExit
            /\ RanAfterLoading = {}
            /\ clue_analysis = <<>> /\ difficulty_groups = <<>>
            /\ (MainReturned => returned["main"] = 1))
    /\ (LoaderRaises ~> ExitedWithOne)

\* characters.csv and scene_evidence.csv were loaded, dialogue.csv has an
\* unreadable line number, and main has returned 1
C21_Witness ==
    /\ load_dialogue_raises(files.dialogue) = "ValueError"
    /\ characters # <<>> /\ scene_evidence # <<>>
    /\ ExitedWithOne

(***************************************************************************)
(* Claims about who counts as dead (SpecAlive).                            *)
(***************************************************************************)
\* death_scene is absent, 0 or negative
NotDead(c) == c.death_scene = None \/ c.death_scene[1] <= 0

NotDeadNames == {characters[i].name : i \in {j \in DOMAIN characters : NotDead(characters[j])}}

\* the same characters, those that are not dead without any death data
WithoutDeathData ==
    [i \in DOMAIN characters |->
        IF NotDead(characters[i])
        THEN Character(characters[i].name, None, None, None)
        ELSE characters[i]]

\* the same records, those of the characters that are not dead without the
\* death flag
WithoutDeathFlags ==
    [i \in DOMAIN scene_evidence |->
        IF scene_evidence[i].character_name \in NotDeadNames
        THEN [scene_evidence[i] EXCEPT !.dies_in_this_scene = FALSE]
        ELSE scene_evidence[i]]

AliveDone ==
    pc \in {"done: check_every_death_has_a_scene", "done: check_timeline_consistency",
            "done: check_death_attribution_completeness"}

\* C22: is_dead() holds iff death_scene is present and greater than 0; a
\* character whose death_scene is absent, 0 or negative is alive for the
\* death-scene, timeline and death-attribution checks: each returns what it
\* returns when these characters have no cause of death, no killer and no
\* death_scene and none of their records carries the death flag.
C22_NotDeadIsSkipped ==
    /\ \A i \in DOMAIN characters : is_dead(characters[i]) <=> ~NotDead(characters[i])
    /\ pc = "done: check_every_death_has_a_scene" =>
          result = check_every_death_has_a_scene(WithoutDeathData, WithoutDeathFlags)
    /\ pc = "done: check_timeline_consistency" =>
          result = check_timeline_consistency(WithoutDeathData, WithoutDeathFlags)
    /\ pc = "done: check_death_attribution_completeness" =>
          result = check_death_attribution_completeness(WithoutDeathData)

\* Alice has death_scene 0 or -1, a cause of death, a killer and a record
\* flagged as her death, Bob is dead, and one of the three checks has returned
C22_Witness ==
    /\ AliveDone
    /\ \E i \in DOMAIN characters :
          /\ characters[i].name = "Alice"
          /\ characters[i].death_scene \in {Some(0), Some(-1)}
          /\ characters[i].cause_of_death # None /\ characters[i].killer # None
    /\ \E j \in DOMAIN characters : is_dead(characters[j])
    /\ \E k \in DOMAIN scene_evidence :
          /\ scene_evidence[k].character_name = "Alice"
          /\ scene_evidence[k].dies_in_this_scene

(***************************************************************************)
(* Claims about the analysis of main (SpecAnalysis).                       *)
(***************************************************************************)
Grouped == "analyze_character_difficulty" \in DOMAIN returned

\* how many times the name is listed under the label
TimesListed(name, label) ==
    Cardinality({i \in DOMAIN difficulty_groups[label] :
                    difficulty_groups[label][i] = name})

\* C23: analyze_character_difficulty partitions the analysed characters: the
\* result has the five labels as keys, every name of the clue analysis is
\* listed once under its own difficulty label and under no other label, and the
\* sizes of the five lists add up to the number of analysed characters.
C23_GroupsPartition ==
    Grouped =>
        /\ DOMAIN difficulty_groups = Range(DifficultyLabels)
        /\ \A i \in DOMAIN clue_analysis : \A label \in Range(DifficultyLabels) :
              TimesListed(clue_analysis[i].name, label)
                  = IF label = clue_analysis[i].difficulty THEN 1 ELSE 0
        /\ SumLen(difficulty_groups, 1) = Len(clue_analysis)

\* six characters were grouped and at least four labels are in use
C23_Witness ==
    /\ Grouped
    /\ Len(clue_analysis) = 6
    /\ Cardinality({l \in Range(DifficultyLabels) : difficulty_groups[l] # <<>>}) >= 4


CluesAnalysed == "analyze_clues_per_character" \in DOMAIN returned

\* the records of the character, in list order
OwnRecords(name) == SelectSeq(scene_evidence, LAMBDA ev : ev.character_name = name)

\* the number of signals fired over all the records of the character
FiredSignals(name) ==
    Sum([i \in DOMAIN OwnRecords(name) |-> Cardinality(Fired(OwnRecords(name)[i]))])

OwnScenes(name) == {OwnRecords(name)[i].scene_number : i \in DOMAIN OwnRecords(name)}

ScenesWithFiredSignal(name) ==
    {OwnRecords(name)[i].scene_number :
        i \in {j \in DOMAIN OwnRecords(name) : Fired(OwnRecords(name)[j]) # {}}}

CategoryTotal(entry) ==
    entry.clue_types.visual + entry.clue_types.dialogue + entry.clue_types.contextual
    + entry.clue_types.relationship + entry.clue_types.role

\* C24: for every analysed character, total_clues is the sum of the five
\* category counts and the number of fired signals summed over all its records
\* (two records of one scene both count), scenes_with_clues is the number of
\* distinct scene numbers among its records with a fired signal, so
\* scenes_with_clues is at most the number of its distinct scenes and
\* total_clues at most 14 times the number of its records.
C24_ClueTotals ==
    CluesAnalysed =>
        \A i \in DOMAIN clue_analysis :
            LET entry == clue_analysis[i]
            IN  /\ entry.total_clues = CategoryTotal(entry)
                /\ entry.total_clues = FiredSignals(entry.name)
                /\ entry.scenes_with_clues = Cardinality(ScenesWithFiredSignal(entry.name))
                /\ entry.scenes_with_clues <= Cardinality(OwnScenes(entry.name))
                /\ entry.total_clues <= 14 * Len(OwnRecords(entry.name))
                /\ "analyze_character_appearances" \in DOMAIN returned =>
                      /\ returned["analyze_character_appearances"][i].name = entry.name
                      /\ entry.scenes_with_clues
                            <= returned["analyze_character_appearances"][i].scenes

\* Alice has two records of one scene with all fourteen signals each: 28 clues
\* in one scene
C24_Witness ==
    /\ CluesAnalysed
    /\ "analyze_character_appearances" \in DOMAIN returned
    /\ \E i \in DOMAIN clue_analysis :
          /\ clue_analysis[i].total_clues = 28
          /\ clue_analysis[i].scenes_with_clues = 1
          /\ Len(OwnRecords(clue_analysis[i].name)) = 2


Uncaught == pc \in {"IndexError", "KeyError", "ZeroDivisionError"}

\* C25: on every dataset that loads (no loader raises), main runs the analysis,
\* the seven validators and the reports to completion and returns 0 when every
\* validation passed and 1 otherwise: it never ends with an uncaught exception.
\* The run on any loaded dataset with a character ends with the KeyError of
\* difficulty_order['VERY EASY'] (main.py 147), and the run on no character
\* with the IndexError of the thresholds (main.py 50).
C25_LoadedRunCompletes ==
    ~LoaderRaises =>
        /\ ~Uncaught
        /\ pc = "done: main" =>
              returned["main"] = IF all_passed(returned["validation_results"])
                                 THEN 0 ELSE 1


Validated == "validation_results" \in DOMAIN returned

MostClues == CHOOSE m \in {clue_analysis[i].total_clues : i \in DOMAIN clue_analysis} :
                 \A i \in DOMAIN clue_analysis : clue_analysis[i].total_clues <= m

\* the result of check_difficulty_balance among the validation results
BalanceResult ==
    (CHOOSE r \in Range(returned["validation_results"]) :
        r.name = "Difficulty Balance").result

VeryHard == {i \in DOMAIN difficulty : difficulty[i] = "VERY HARD"}

QuintileSize == Len(all_clue_counts) \div 5

LeastClues == CHOOSE m \in Range(all_clue_counts) :
                  \A i \in DOMAIN all_clue_counts : m <= all_clue_counts[i]

\* C28: with one to four characters the quintile size is 0, the four
\* thresholds all equal the smallest clue count, and every character is
\* labelled VERY EASY whatever its clue count.
C28_SmallCastAllVeryEasy ==
    Len(all_clue_counts) \in 1..4 =>
        /\ QuintileSize = 0
        /\ ThresholdsDone =>
              thresholds = [hard_min |-> LeastClues, medium_min |-> LeastClues,
                            easy_min |-> LeastClues, very_easy_min |-> LeastClues]
        /\ DifficultyDone =>
              \A i \in DOMAIN difficulty : difficulty[i] = "VERY EASY"

\* four characters with four different clue counts, none in ascending place,
\* have all been labelled
C28_Witness ==
    /\ DifficultyDone
    /\ Len(all_clue_counts) = 4
    /\ Cardinality(Range(all_clue_counts)) = 4
    /\ all_clue_counts[1] > all_clue_counts[4]

(***************************************************************************)
(* Claims about the order of the evidence records (SpecBasic).             *)
(***************************************************************************)
\* the orderings of the evidence list: the same records, each once
Orderings ==
    {[i \in DOMAIN scene_evidence |-> scene_evidence[p[i]]] :
        p \in {q \in [DOMAIN scene_evidence -> DOMAIN scene_evidence] :
                  \A i, j \in DOMAIN scene_evidence : q[i] = q[j] => i = j}}

\* C29: the verdict of check_every_death_has_a_scene depends on the collection
\* of evidence records only: on every ordering of the same records the check
\* passes or fails as it did on the list it was given.  (Only the first
\* death-flagged record of a character is examined, see C1: with death records
\* of Alice in her death scene and in another scene the verdict follows the
\* order.)
C29_VerdictIgnoresOrder ==
    pc = "done: check_every_death_has_a_scene" =>
        \A reordered \in Orderings :
            check_every_death_has_a_scene(characters, reordered).passed = result.passed

(***************************************************************************)
(* Claim about the analysis of no character (SpecAnalysis).                *)
(***************************************************************************)
\* C30: analyze_clues_per_character called with an empty character set returns
\* the empty analysis without raising, so the analysis step of a run on a
\* dataset with zero characters completes.  (The thresholds are read at
\* sorted_counts[min(0, -1)] of the empty list: IndexError.)
C30_EmptyCastAnalysed ==
    characters = <<>> =>
        /\ pc # "IndexError"
        /\ pc # "analyze_clues_per_character" =>
              CluesAnalysed /\ clue_analysis = <<>>

====
